---- MODULE Spec2Model ----
(***************************************************************************)
(* Model of the launch-group orchestrator of vscode-ros: the launch group  *)
(* handler (sessions, plain processes, terminals, stop cascade, kill       *)
(* escalation), the ROS 1 launch resolver with its core-service gate, and  *)
(* the pure helpers parseCommand and executableOrNodeMatchWhitelist.       *)
(***************************************************************************)
EXTENDS Integers, Sequences, FiniteSets, TLC

\* ------------------------------------------------------------------ bounds
MaxSessions == 2
MaxProcs == 1
MaxParts == 3
MaxWhitelist == 1
MaxTokens == 4

Sessions == 1..MaxSessions
\* The plain processes of one launch invocation, and one more that only the
\* terminals specification spawns (a process beside the one whose terminal
\* is closed)
LaunchProcs == 1..MaxProcs
Procs == 1..(MaxProcs + 1)

\* ------------------------------------------------------- program constants
\* sleep(5000) and sleep(2000) of killProcess, in units of 1000 ms
KillGraceInt == 5
KillGraceTerm == 2

\* A JavaScript optional boolean: true, false or undefined
FlagValues == {"true", "false", "undefined"}

\* The key of a killCall: the session whose sessionStopped call began it, or
\* TermKey(p) for the on_close callback of the terminal of process p
TermKey(p) == MaxSessions + p
KillKeys == Sessions \cup {TermKey(p) : p \in Procs}

\* roslaunch gate: timeout_ms and interval_ms of the wait for the ROS core
timeout_ms == 30000
interval_ms == 100

Platforms == {"linux", "win32"}

VARIABLES
    \* LaunchGroupHandler fields
    sessions, processes, terminals, stopping,
    stopAll, stopCoreAfterDebug, stopLaunchedNodes,
    attachTerminalsToProcesses, terminateOnTerminalClosed,
    \* the host debug service, the child processes, the ptys, the ROS core
    hostSession, child, pty, onClose, coreRunning,
    \* the asynchronous calls in flight
    stopCall, pendingStop, killCall,
    \* history: what the handler asked of its collaborators
    stopRequests,
    \* os.platform()
    platform,
    \* LaunchResolver.resolveDebugConfigurationWithSubstitutedVariables: its
    \* position, the error it threw, its locals, the provider's queue
    launchPc, launchError, timeWaited, nodes, debug_count, processesToLaunch,
    \* executeLaunchRequest calls waiting for the first line of the executable
    \* (linux) or for the host's answer to startDebugging (win32)
    sniffing, starting,
    \* history: startCore calls, roslaunch evaluator calls, startDebugging
    \* requests, and whether a poll of the gate reported the core ready
    startCoreCalls, evaluatorCalls, startRequests, gateSawReady,
    \* the resolver the debug manager hands the request to, and config.target
    resolver, target,
    \* history: per node, the addProcess and executeLaunchRequest calls made
    decisions,
    \* what the last roslaunch evaluator call of lines 65 and 86 produced
    execResult,
    \* history: rosApi.stopCore() calls, counted where the core's stops are
    \* observed
    stopCoreCalls,
    \* history: the nodes whose debug session the host refused to start
    refused,
    \* executableOrNodeMatchWhitelist: its arguments and its result
    whitelist, executableName, nodeName, matched,
    \* parseCommand: its argument and its result
    command, parsed,
    \* generateLaunchRequest: config.launch, config.attachDebugger, the
    \* executable of the parsed command, and its result
    launch, attachDebugger, executable, launchRequest

groupVars == <<sessions, processes, terminals, stopping,
               stopAll, stopCoreAfterDebug, stopLaunchedNodes,
               attachTerminalsToProcesses, terminateOnTerminalClosed,
               hostSession, child, pty, onClose, coreRunning,
               stopCall, pendingStop, killCall,
               stopRequests>>

launchVars == <<platform, launchPc, launchError, timeWaited, nodes, debug_count,
                processesToLaunch, sniffing, starting,
                startCoreCalls, evaluatorCalls, startRequests, gateSawReady,
                resolver, target, decisions, execResult, refused>>

matchVars == <<whitelist, executableName, nodeName, matched>>

parseVars == <<command, parsed>>

classifyVars == <<launch, attachDebugger, executable, launchRequest>>

vars == <<groupVars, launchVars, matchVars, parseVars, classifyVars, stopCoreCalls>>

\* What the launch group handler does not touch
restVars == <<launchVars, matchVars, parseVars, classifyVars, stopCoreCalls>>

\* The arguments and results of the pure functions
pureVars == <<matchVars, parseVars, classifyVars>>

\* ----------------------------------------------------------------- helpers
Min(a, b) == IF a < b THEN a ELSE b

SeqToSet(s) == {s[i] : i \in 1..Len(s)}

\* Array.prototype.filter
RECURSIVE Filter(_, _)
Filter(s, keep) ==
    IF s = <<>> THEN <<>>
    ELSE IF Head(s) \in keep THEN <<Head(s)>> \o Filter(Tail(s), keep)
         ELSE Filter(Tail(s), keep)

NoKill == [pc |-> "none", elapsed |-> 0, sigs |-> [p \in Procs |-> <<>>]]
NoCall == [pc |-> "none", branch |-> "none"]

\* -------------------------------------------------------------------- Init
GroupInit ==
    /\ sessions = <<>>
    /\ processes = <<>>
    /\ terminals = <<>>
    /\ stopping = FALSE
    /\ stopAll = "false"
    /\ stopCoreAfterDebug = "false"
    /\ stopLaunchedNodes = "true"
    /\ attachTerminalsToProcesses = "true"
    /\ terminateOnTerminalClosed = "true"
    /\ hostSession = [s \in Sessions |-> "new"]
    /\ child = [p \in Procs |-> "unspawned"]
    /\ pty = [p \in Procs |-> "none"]
    /\ onClose = [p \in Procs |-> "none"]
    /\ coreRunning \in BOOLEAN
    /\ stopCall = [s \in Sessions |-> NoCall]
    /\ pendingStop = {}
    /\ killCall = [k \in KillKeys |-> NoKill]
    /\ stopRequests = [s \in Sessions |-> 0]
    /\ stopCoreCalls = 0

\* ------------------------------------------------------------- killProcess
\* One killCall is the killProcess calls begun in one turn of the event loop:
\* those of one stopAllProcesses (key: the session whose stop began it), or the
\* one of an on_close callback (key: TermKey(p)). Their sleep() timers are set
\* in the same turn with the same delay, so Node runs them back to back and the
\* calls of one killCall probe together.
\* killProcess up to its first await: p.kill("SIGINT"); await sleep(5000)
KillStarted(kc, k, ps) ==
    [kc EXCEPT ![k] = [pc |-> "grace1", elapsed |-> 0,
                       sigs |-> [p \in Procs |-> IF p \in ps THEN <<"SIGINT">> ELSE <<>>]]]

\* p.kill(0): true while the child runs; false or an exception once it is gone
ProbeOutcomes(p) == IF child[p] = "running" THEN {"true"} ELSE {"false", "throw"}

\* try { if (!p.kill(0)) { return; } } catch { return; }
ProbeVerdictUncaught(r) ==
    IF r = "true" THEN "escalate" ELSE IF r = "false" THEN "return" ELSE "raise"

ProbeVerdict(r) == IF r = "true" THEN "escalate" ELSE "return"

\* The sleep before the first and before the second probe is over
FirstGraceTooShort(c) == c.elapsed >= KillGraceTerm

FirstGraceOver(c) == c.elapsed >= KillGraceInt

SecondGraceOver(c) == c.elapsed >= KillGraceTerm

\* The signal killProcess sends after a probe found the process alive
NextSignal(pc) == IF pc = "grace1" THEN "SIGTERM" ELSE "SIGKILL"

\* The processes of call c that are still being escalated
Escalating(c) ==
    {p \in Procs : Len(c.sigs[p]) = (IF c.pc = "grace1" THEN 1 ELSE 2)}

\* Call c after the probes r of the processes it still escalates: a process
\* found alive is sent the next signal and slept on; the others are done with
Probed(c, r) ==
    LET esc == Escalating(c)
        sg == [p \in Procs |->
                 IF p \in esc /\ ProbeVerdict(r[p]) = "escalate"
                 THEN Append(c.sigs[p], NextSignal(c.pc)) ELSE c.sigs[p]]
    IN [pc |-> IF \E p \in esc : ProbeVerdict(r[p]) = "raise" THEN "raised"
               ELSE IF c.pc = "grace1" /\ \E p \in esc : ProbeVerdict(r[p]) = "escalate"
                    THEN "grace2" ELSE "done",
        elapsed |-> 0,
        sigs |-> sg]

\* The Promise.all of stopAllProcesses settles with its last killProcess
AfterKill(kc, k) ==
    IF k \in Sessions /\ kc[k].pc = "done"
    THEN [stopCall EXCEPT ![k].pc = "coreStatus"]
    ELSE IF k \in Sessions /\ kc[k].pc = "raised"
         THEN [stopCall EXCEPT ![k].pc = "rejected"]
         ELSE stopCall

\* The timers of call k fire: the first probe of killProcess, after sleep(5000)
KillProbe1(k) ==
    /\ killCall[k].pc = "grace1"
    /\ FirstGraceOver(killCall[k])
    /\ \E r \in [Procs -> {"true", "false", "throw"}] :
        /\ \A p \in Procs : r[p] \in ProbeOutcomes(p)
        /\ LET kc == [killCall EXCEPT ![k] = Probed(killCall[k], r)]
           IN /\ killCall' = kc
              /\ stopCall' = AfterKill(kc, k)
    /\ UNCHANGED <<sessions, processes, terminals, stopping, stopAll,
                   stopCoreAfterDebug, stopLaunchedNodes, attachTerminalsToProcesses,
                   terminateOnTerminalClosed, hostSession, child, pty, onClose,
                   coreRunning, pendingStop, stopRequests>>

\* The timers of call k fire: the second probe of killProcess, after sleep(2000)
KillProbe2(k) ==
    /\ killCall[k].pc = "grace2"
    /\ SecondGraceOver(killCall[k])
    /\ \E r \in [Procs -> {"true", "false", "throw"}] :
        /\ \A p \in Procs : r[p] \in ProbeOutcomes(p)
        /\ LET kc == [killCall EXCEPT ![k] = Probed(killCall[k], r)]
           IN /\ killCall' = kc
              /\ stopCall' = AfterKill(kc, k)
    /\ UNCHANGED <<sessions, processes, terminals, stopping, stopAll,
                   stopCoreAfterDebug, stopLaunchedNodes, attachTerminalsToProcesses,
                   terminateOnTerminalClosed, hostSession, child, pty, onClose,
                   coreRunning, pendingStop, stopRequests>>

\* Time passes by d units: every sleeping killProcess call has waited d units
\* longer (counted up to the length of its sleep)
Sleeping(c) == c.pc \in {"grace1", "grace2"}

GraceOf(c) == IF c.pc = "grace1" THEN KillGraceInt ELSE KillGraceTerm

Advance(d) ==
    /\ \E k \in KillKeys :
        Sleeping(killCall[k]) /\ killCall[k].elapsed < GraceOf(killCall[k])
    /\ killCall' = [k \in KillKeys |->
                      IF Sleeping(killCall[k])
                      THEN [killCall[k] EXCEPT
                              !.elapsed = Min(@ + d, GraceOf(killCall[k]))]
                      ELSE killCall[k]]
    /\ UNCHANGED <<sessions, processes, terminals, stopping, stopAll,
                   stopCoreAfterDebug, stopLaunchedNodes, attachTerminalsToProcesses,
                   terminateOnTerminalClosed, hostSession, child, pty, onClose,
                   coreRunning, stopCall, pendingStop, stopRequests>>

\* A child process exits (on a signal or by itself)
ChildExits(p) ==
    /\ child[p] = "running"
    /\ child' = [child EXCEPT ![p] = "exited"]
    /\ UNCHANGED <<sessions, processes, terminals, stopping, stopAll,
                   stopCoreAfterDebug, stopLaunchedNodes, attachTerminalsToProcesses,
                   terminateOnTerminalClosed, hostSession, pty, onClose,
                   coreRunning, stopCall, pendingStop, killCall, stopRequests>>

\* -------------------------------------------------------- stopAllProcesses
KillsLaunchedNodesIfTrue == stopLaunchedNodes = "true"

\* if (this.stopLaunchedNodes !== false)
KillsLaunchedNodes == stopLaunchedNodes # "false"

StopsCoreUnlessFalse(status) == status = TRUE /\ stopCoreAfterDebug # "false"

\* if (await rosApi.getCoreStatus() === true && this.stopCoreAfterDebug === true)
StopsCore(status) == status = TRUE /\ stopCoreAfterDebug = "true"

\* stopAllProcesses of call s up to its first await that leaves the event loop:
\* with processes to kill, the SIGINT of every killProcess; otherwise the
\* getCoreStatus query
BeginStopAllProcesses(s, b) ==
    LET willKill == KillsLaunchedNodes /\ Len(processes) > 0
    IN /\ killCall' = IF willKill
                      THEN KillStarted(killCall, s, SeqToSet(processes))
                      ELSE killCall
       /\ stopCall' = [stopCall EXCEPT ![s] =
                          [pc |-> IF willKill THEN "killProcs" ELSE "coreStatus",
                           branch |-> b]]

\* rosApi.getCoreStatus() answers call s: the rest of stopAllProcesses and of
\* sessionStopped
CoreStatusReply(s) ==
    /\ stopCall[s].pc = "coreStatus"
    /\ coreRunning' = IF StopsCore(coreRunning) THEN FALSE ELSE coreRunning
    /\ processes' = <<>>
    /\ killCall' = [killCall EXCEPT ![s] = NoKill]
    /\ IF stopCall[s].branch = "all"
       THEN sessions' = <<>> /\ stopping' = FALSE
       ELSE UNCHANGED <<sessions, stopping>>
    /\ stopCall' = [stopCall EXCEPT ![s].pc = "done"]
    /\ UNCHANGED <<terminals, stopAll, stopCoreAfterDebug, stopLaunchedNodes,
                   attachTerminalsToProcesses, terminateOnTerminalClosed,
                   hostSession, child, pty, onClose, pendingStop, stopRequests>>

\* ---------------------------------------------------------- sessionStarted
SessionStarted(s) ==
    /\ hostSession[s] = "new"
    /\ \A t \in Sessions : t < s => hostSession[t] # "new"
    /\ hostSession' = [hostSession EXCEPT ![s] = "running"]
    /\ sessions' = Append(sessions, s)
    /\ UNCHANGED <<processes, terminals, stopping, stopAll, stopCoreAfterDebug,
                   stopLaunchedNodes, attachTerminalsToProcesses,
                   terminateOnTerminalClosed, child, pty, onClose, coreRunning,
                   stopCall, pendingStop, killCall, stopRequests>>

\* ---------------------------------------------------------- sessionStopped
\* if (this.stopAll === true)
StopsAll == stopAll = "true"

\* if (this.stopping === true) { return; }
NeverRecursing == FALSE

Recursing == stopping = TRUE

\* if (this.sessions.length === 0)
LastSessionGoneAlways(ss) == TRUE

LastSessionGone(ss) == Len(ss) = 0

EverySession(s) == SeqToSet(sessions)

\* The sessions the stopAll branch asks the host to stop:
\* session.id !== stopped_session.id
OtherSessions(s) == SeqToSet(sessions) \ {s}

\* The host reports that session s terminated: sessionStopped(s) up to its
\* first await that leaves the event loop
SessionStopped(s) ==
    /\ hostSession[s] = "running"
    /\ hostSession' = [hostSession EXCEPT ![s] = "terminated"]
    /\ IF StopsAll
       THEN IF Recursing
            THEN /\ stopCall' = [stopCall EXCEPT ![s] = [pc |-> "done", branch |-> "guarded"]]
                 /\ UNCHANGED <<sessions, stopping, pendingStop, stopRequests,
                                killCall>>
            ELSE /\ stopping' = TRUE
                 /\ stopRequests' = [t \in Sessions |->
                        IF t \in OtherSessions(s) THEN stopRequests[t] + 1
                        ELSE stopRequests[t]]
                 /\ pendingStop' = pendingStop \cup {<<s, t>> : t \in OtherSessions(s)}
                 /\ UNCHANGED sessions
                 /\ IF OtherSessions(s) = {}
                    THEN BeginStopAllProcesses(s, "all")
                    ELSE /\ stopCall' = [stopCall EXCEPT ![s] =
                                            [pc |-> "stopSessions", branch |-> "all"]]
                         /\ UNCHANGED killCall
       ELSE /\ sessions' = Filter(sessions, Sessions \ {s})
            /\ UNCHANGED <<stopping, pendingStop, stopRequests>>
            /\ IF LastSessionGone(sessions')
               THEN BeginStopAllProcesses(s, "last")
               ELSE /\ stopCall' = [stopCall EXCEPT ![s] = [pc |-> "done", branch |-> "kept"]]
                    /\ UNCHANGED killCall
    /\ UNCHANGED <<processes, terminals, stopAll, stopCoreAfterDebug,
                   stopLaunchedNodes, attachTerminalsToProcesses,
                   terminateOnTerminalClosed, child, pty, onClose, coreRunning>>

\* vscode.debug.stopDebugging(t), asked by call s, resolves; with the last one
\* the Promise.all resolves and stopAllProcesses begins
StopDebuggingDone(s, t) ==
    /\ <<s, t>> \in pendingStop
    /\ pendingStop' = pendingStop \ {<<s, t>>}
    /\ IF \E u \in Sessions : <<s, u>> \in pendingStop'
       THEN UNCHANGED <<killCall, stopCall>>
       ELSE BeginStopAllProcesses(s, "all")
    /\ UNCHANGED <<sessions, processes, terminals, stopping, stopAll,
                   stopCoreAfterDebug, stopLaunchedNodes, attachTerminalsToProcesses,
                   terminateOnTerminalClosed, hostSession, child, pty, onClose,
                   coreRunning, stopRequests>>

\* vscode.debug.stopDebugging(t), asked by call s, rejects: the Promise.all of
\* line 120 rejects and the await throws out of sessionStopped, which has no
\* try/catch; lines 125-128 do not run. The other stop requests of the call
\* settle without a continuation.
StopDebuggingFails(s, t) ==
    /\ <<s, t>> \in pendingStop
    /\ pendingStop' = {c \in pendingStop : c[1] # s}
    /\ stopCall' = [stopCall EXCEPT ![s].pc = "rejected"]
    /\ UNCHANGED <<sessions, processes, terminals, stopping, stopAll,
                   stopCoreAfterDebug, stopLaunchedNodes, attachTerminalsToProcesses,
                   terminateOnTerminalClosed, hostSession, child, pty, onClose,
                   coreRunning, killCall, stopRequests>>

\* ------------------------------------------------------ executeSpawnProcess
Spawn(p) ==
    /\ child[p] = "unspawned"
    /\ \A q \in Procs : q < p => child[q] # "unspawned"
    /\ child' = [child EXCEPT ![p] = "running"]
    /\ IF attachTerminalsToProcesses # "false"
       THEN /\ onClose' = [onClose EXCEPT ![p] =
                              IF terminateOnTerminalClosed # "false" THEN "kill" ELSE "noop"]
            /\ pty' = [pty EXCEPT ![p] = "open"]
            /\ terminals' = Append(terminals, p)
       ELSE UNCHANGED <<onClose, pty, terminals>>
    /\ processes' = Append(processes, p)
    /\ UNCHANGED <<sessions, stopping, stopAll, stopCoreAfterDebug, stopLaunchedNodes,
                   attachTerminalsToProcesses, terminateOnTerminalClosed,
                   hostSession, coreRunning, stopCall, pendingStop, killCall,
                   stopRequests>>

TerminalClosedStopsGroup(p) ==
    /\ pty[p] = "open"
    /\ pty' = [pty EXCEPT ![p] = "closed"]
    /\ IF onClose[p] = "kill"
       THEN /\ processes' = <<>>
            /\ killCall' = KillStarted(killCall, TermKey(p), SeqToSet(processes))
       ELSE UNCHANGED <<processes, killCall>>
    /\ UNCHANGED <<sessions, terminals, stopping, stopAll, stopCoreAfterDebug,
                   stopLaunchedNodes, attachTerminalsToProcesses,
                   terminateOnTerminalClosed, hostSession, child, onClose,
                   coreRunning, stopCall, pendingStop, stopRequests>>

\* The pty of process p is closed: its on_close callback runs
TerminalClosed(p) ==
    /\ pty[p] = "open"
    /\ pty' = [pty EXCEPT ![p] = "closed"]
    /\ IF onClose[p] = "kill"
       THEN /\ processes' = Filter(processes, Procs \ {p})
            /\ killCall' = KillStarted(killCall, TermKey(p), {p})
       ELSE UNCHANGED <<processes, killCall>>
    /\ UNCHANGED <<sessions, terminals, stopping, stopAll, stopCoreAfterDebug,
                   stopLaunchedNodes, attachTerminalsToProcesses,
                   terminateOnTerminalClosed, hostSession, child, onClose,
                   coreRunning, stopCall, pendingStop, stopRequests>>

\* ---------------------------------------------------- registerLaunchRequest
\* configure(config), then clearTerminals()
RegisterLaunchRequest(c) ==
    /\ stopAll' = c.stopAll
    /\ stopCoreAfterDebug' = c.stopCoreAfterDebug
    /\ stopLaunchedNodes' = c.stopLaunchedNodes
    /\ attachTerminalsToProcesses' = c.attachTerminalsToProcesses
    /\ terminateOnTerminalClosed' = c.terminateOnTerminalClosed
    /\ terminals' = <<>>
    /\ UNCHANGED <<sessions, processes, stopping, hostSession, child, pty, onClose,
                   coreRunning, stopCall, pendingStop, killCall,
                   stopRequests>>

Configs == [stopAll : FlagValues, stopCoreAfterDebug : FlagValues,
            stopLaunchedNodes : FlagValues,
            attachTerminalsToProcesses : FlagValues,
            terminateOnTerminalClosed : FlagValues]

\* The ROS core is started from outside the extension
CoreStarts ==
    /\ ~coreRunning
    /\ coreRunning' = TRUE
    /\ UNCHANGED <<sessions, processes, terminals, stopping, stopAll,
                   stopCoreAfterDebug, stopLaunchedNodes, attachTerminalsToProcesses,
                   terminateOnTerminalClosed, hostSession, child, pty, onClose,
                   stopCall, pendingStop, killCall, stopRequests>>

\* --------------------------------------------------------- LaunchResolver
\* The state before resolveDebugConfigurationWithSubstitutedVariables is called
NoRequest ==
    /\ resolver = "ros1"
    /\ target = [absolute |-> TRUE, ext |-> ".launch"]

LaunchIdle ==
    /\ launchPc = "idle"
    /\ launchError = "none"
    /\ timeWaited = 0
    /\ nodes = <<>>
    /\ debug_count = 0
    /\ processesToLaunch = <<>>
    /\ sniffing = {}
    /\ starting = {}
    /\ startCoreCalls = 0
    /\ evaluatorCalls = 0
    /\ startRequests = 0
    /\ gateSawReady = FALSE
    /\ decisions = <<>>
    /\ execResult = "none"
    /\ refused = {}

\* What generateLaunchRequest and executeLaunchRequest make of one node:
\* "plain" (no launch request: the node is queued with addProcess), "debug"
\* (a launch request whose debug configuration can be built), "noConfig" (a
\* launch request for which executeLaunchRequest throws before it asks the
\* host anything: no configuration on win32, not executable or not readable
\* elsewhere)
NodeKinds == {"plain", "debug", "noConfig"}

Indexes(ns, kind) == {i \in 1..Len(ns) : ns[i] = kind}

\* The node lists roslaunch --nodes may print: stdout.trim().split(os.EOL)
\* has at least one element
NodeLists ==
    {ns \in UNION {[1..n -> NodeKinds] : n \in 1..(MaxProcs + MaxSessions)} :
        /\ Cardinality(Indexes(ns, "plain")) <= MaxProcs
        /\ Cardinality(Indexes(ns, "debug") \cup Indexes(ns, "noConfig")) <= MaxSessions}

\* The evaluator's answer: fine, diagnostics on stderr, or an empty stdout
ExecResults == {"ok", "stderr", "empty"}

ExecFailedOnStderr(r) == r = "stderr"

\* lines 66-70 and 87-91: if (result.stderr) throw ... else if
\* (result.stdout.length == 0) throw ...
ExecFailed(r) == r = "stderr" \/ r = "empty"

DecideWithoutElse(kind) ==
    [addProcess |-> 1, executeLaunchRequest |-> IF kind # "plain" THEN 1 ELSE 0]

\* lines 101-107: if (launchRequest != null) executeLaunchRequest(...) else
\* addProcess(...): the calls made for one node
Decide(kind) ==
    IF kind # "plain"
    THEN [addProcess |-> 0, executeLaunchRequest |-> 1]
    ELSE [addProcess |-> 1, executeLaunchRequest |-> 0]

\* addProcess for every plain node of the list, in the list's order
RECURSIVE AddProcesses(_, _)
AddProcesses(queue, ns) ==
    IF ns = <<>> THEN queue
    ELSE AddProcesses(IF Decide(Head(ns)).addProcess = 1
                      THEN Append(queue, Len(queue) + 1) ELSE queue,
                      Tail(ns))

\* The thrown error ends the invocation
Throw(error) ==
    /\ launchPc' = "failed"
    /\ launchError' = error

\* config.target: whether path.isAbsolute holds of it, and its path.extname
TargetExtensions == {".launch", ".test", ".py", ".xml", ".txt"}

Targets == [absolute : BOOLEAN, ext : TargetExtensions]

\* manager.ts: a "launch" request under ROS 1 goes to the ROS 1 launch
\* resolver, a "debug_launch" request under ROS 2 to the debug_launch resolver
Resolvers == {"ros1", "debug_launch"}

ValidTargetWithAnyPath == target.ext \in {".launch", ".test"}

\* line 23, negated: the target is absolute and its extension is .launch or
\* .test
ValidTarget == target.absolute /\ target.ext \in {".launch", ".test"}

\* lines 22-25 of the ROS 1 resolver
ResolveDebugConfiguration ==
    /\ resolver = "ros1"
    /\ launchPc = "idle"
    /\ IF ValidTarget
       THEN launchPc' = "gateStatus" /\ UNCHANGED launchError
       ELSE Throw("target")
    /\ UNCHANGED <<groupVars, platform, timeWaited, nodes, debug_count,
                   processesToLaunch, sniffing, starting, startCoreCalls,
                   evaluatorCalls, startRequests, gateSawReady,
                   resolver, target, decisions, execResult, refused, pureVars, stopCoreCalls>>

\* debug_launch.ts lines 18-56: the target is checked, then the host is asked
\* to start the debug session of the launch dumper
ResolveDebugLaunch ==
    /\ resolver = "debug_launch"
    /\ launchPc = "idle"
    /\ IF ~target.absolute
       THEN Throw("target") /\ UNCHANGED startRequests
       ELSE IF target.ext # ".py" /\ target.ext # ".xml"
            THEN Throw("extension") /\ UNCHANGED startRequests
            ELSE /\ launchPc' = "dumperStarting"
                 /\ startRequests' = startRequests + 1
                 /\ UNCHANGED launchError
    /\ UNCHANGED <<groupVars, platform, timeWaited, nodes, debug_count,
                   processesToLaunch, sniffing, starting, startCoreCalls,
                   evaluatorCalls, gateSawReady,
                   resolver, target, decisions, execResult, refused, pureVars, stopCoreCalls>>

\* debug_launch.ts lines 56-62: the host's answer to startDebugging
DumperStartReply(launched) ==
    /\ launchPc = "dumperStarting"
    /\ IF launched
       THEN launchPc' = "returned" /\ UNCHANGED launchError
       ELSE Throw("session")
    /\ UNCHANGED <<groupVars, platform, timeWaited, nodes, debug_count,
                   processesToLaunch, sniffing, starting, startCoreCalls,
                   evaluatorCalls, startRequests, gateSawReady,
                   resolver, target, decisions, execResult, refused, pureVars, stopCoreCalls>>

\* line 31: the answer to the first getCoreStatus()
GateStatusReply ==
    /\ launchPc = "gateStatus"
    /\ IF coreRunning = FALSE
       THEN /\ startCoreCalls' = startCoreCalls + 1
            /\ timeWaited' = 0
            /\ launchPc' = "gatePoll"
            /\ UNCHANGED evaluatorCalls
       ELSE /\ launchPc' = "dumpParams"
            /\ evaluatorCalls' = evaluatorCalls + 1
            /\ UNCHANGED <<startCoreCalls, timeWaited>>
    /\ UNCHANGED <<groupVars, platform, launchError, nodes, debug_count,
                   processesToLaunch, sniffing, starting, startRequests,
                   gateSawReady,
                   resolver, target, decisions, execResult, refused, pureVars, stopCoreCalls>>

GateNeverTimesOut(t) == FALSE

\* line 47: if (timeWaited >= timeout_ms) throw
GateTimedOut(t) == t >= timeout_ms

\* lines 39-49: the answer to a getCoreStatus() of the loop condition
GatePollReply ==
    /\ launchPc = "gatePoll"
    /\ gateSawReady' = (gateSawReady \/ coreRunning)
    /\ IF coreRunning = FALSE /\ timeWaited < timeout_ms
       THEN /\ timeWaited' = timeWaited + interval_ms
            /\ launchPc' = "gateDelay"
            /\ UNCHANGED <<launchError, evaluatorCalls>>
       ELSE IF GateTimedOut(timeWaited)
            THEN Throw("timeout") /\ UNCHANGED <<timeWaited, evaluatorCalls>>
            ELSE /\ launchPc' = "dumpParams"
                 /\ evaluatorCalls' = evaluatorCalls + 1
                 /\ timeWaited' = 0    \* the local goes out of scope
                 /\ UNCHANGED launchError
    /\ UNCHANGED <<groupVars, platform, nodes, debug_count, processesToLaunch,
                   sniffing, starting, startCoreCalls, startRequests,
                   resolver, target, decisions, execResult, refused, pureVars, stopCoreCalls>>

\* line 42: await delay(interval_ms) is over
GateDelayOver ==
    /\ launchPc = "gateDelay"
    /\ launchPc' = "gatePoll"
    /\ UNCHANGED <<groupVars, platform, launchError, timeWaited, nodes, debug_count,
                   processesToLaunch, sniffing, starting, startCoreCalls,
                   evaluatorCalls, startRequests, gateSawReady,
                   resolver, target, decisions, execResult, refused, pureVars, stopCoreCalls>>

\* lines 65-86: the answer of roslaunch --dump-params
DumpParamsReply(r) ==
    /\ launchPc = "dumpParams"
    /\ execResult' = r
    /\ IF ~ExecFailed(r)
       THEN /\ launchPc' = "listNodes"
            /\ evaluatorCalls' = evaluatorCalls + 1
            /\ UNCHANGED launchError
       ELSE Throw("evaluator") /\ UNCHANGED evaluatorCalls
    /\ UNCHANGED <<groupVars, platform, timeWaited, nodes, debug_count,
                   processesToLaunch, sniffing, starting, startCoreCalls,
                   startRequests, gateSawReady,
                   resolver, target, decisions, refused, pureVars, stopCoreCalls>>

\* startProcesses: executeSpawnProcess for every queued process
SpawnAll(queue) ==
    /\ child' = [p \in Procs |-> IF p \in SeqToSet(queue) THEN "running" ELSE child[p]]
    /\ processes' = processes \o queue
    /\ IF attachTerminalsToProcesses # "false"
       THEN /\ onClose' = [p \in Procs |->
                             IF p \in SeqToSet(queue)
                             THEN IF terminateOnTerminalClosed # "false" THEN "kill" ELSE "noop"
                             ELSE onClose[p]]
            /\ pty' = [p \in Procs |-> IF p \in SeqToSet(queue) THEN "open" ELSE pty[p]]
            /\ terminals' = terminals \o queue
       ELSE UNCHANGED <<onClose, pty, terminals>>

NoSpawn == UNCHANGED <<child, processes, onClose, pty, terminals>>

\* lines 109-114: startProcesses() if a node is debugged, else clearProcesses()
StartOrClear(count, queue) ==
    /\ IF count # 0 THEN SpawnAll(queue) ELSE NoSpawn
    /\ processesToLaunch' = <<>>
    /\ launchPc' = "returned"
    /\ UNCHANGED launchError

\* lines 86-97: the answer of roslaunch --nodes; registerLaunchRequest(config);
\* one roslaunch --args per node
ListNodesReply(r, ns, c) ==
    /\ launchPc = "listNodes"
    /\ execResult' = r
    /\ IF ~ExecFailed(r)
       THEN /\ stopAll' = c.stopAll
            /\ stopCoreAfterDebug' = c.stopCoreAfterDebug
            /\ stopLaunchedNodes' = c.stopLaunchedNodes
            /\ attachTerminalsToProcesses' = c.attachTerminalsToProcesses
            /\ terminateOnTerminalClosed' = c.terminateOnTerminalClosed
            /\ terminals' = <<>>
            /\ nodes' = ns
            /\ evaluatorCalls' = evaluatorCalls + Len(ns)
            /\ launchPc' = "nodeArgs"
            /\ UNCHANGED launchError
       ELSE /\ Throw("evaluator")
            /\ UNCHANGED <<stopAll, stopCoreAfterDebug, stopLaunchedNodes,
                           attachTerminalsToProcesses, terminateOnTerminalClosed,
                           terminals, nodes, evaluatorCalls>>
    /\ UNCHANGED <<sessions, processes, stopping, hostSession, child, pty, onClose,
                   coreRunning, stopCall, pendingStop, killCall, stopRequests,
                   platform, timeWaited, debug_count, processesToLaunch, sniffing,
                   starting, startCoreCalls, startRequests, gateSawReady,
                   resolver, target, decisions, refused, pureVars, stopCoreCalls>>

\* lines 98-115: the answers of roslaunch --args. Every node is classified in
\* turn: a plain node is queued, a debugged node goes to executeLaunchRequest,
\* which on win32 asks the host to start the session and awaits the answer and
\* elsewhere only opens the executable to read its first line. A throw of
\* executeLaunchRequest rejects the Promise.all, so that neither startProcesses
\* nor clearProcesses runs.
NodeArgsReply ==
    LET queue == AddProcesses(processesToLaunch, nodes)
        debugged == Indexes(nodes, "debug")
    IN  /\ launchPc = "nodeArgs"
        /\ decisions' = [i \in 1..Len(nodes) |-> Decide(nodes[i])]
        /\ IF platform = "win32"
           THEN /\ starting' = starting \cup debugged
                /\ startRequests' = startRequests + Cardinality(debugged)
                /\ UNCHANGED <<sniffing, debug_count>>
           ELSE /\ sniffing' = sniffing \cup debugged
                /\ debug_count' = Cardinality(debugged)
                /\ UNCHANGED <<starting, startRequests>>
        /\ IF Indexes(nodes, "noConfig") # {}
           THEN Throw("debugConfig") /\ processesToLaunch' = queue /\ NoSpawn
           ELSE IF platform = "win32" /\ debugged # {}
                THEN /\ launchPc' = "startingSessions"
                     /\ processesToLaunch' = queue
                     /\ NoSpawn
                     /\ UNCHANGED launchError
                ELSE StartOrClear(Cardinality(debugged), queue)
        /\ UNCHANGED <<sessions, stopping, stopAll, stopCoreAfterDebug,
                       stopLaunchedNodes, attachTerminalsToProcesses,
                       terminateOnTerminalClosed, hostSession, coreRunning,
                       stopCall, pendingStop, killCall, stopRequests,
                       platform, timeWaited, nodes, startCoreCalls, evaluatorCalls,
                       gateSawReady,
                       resolver, target, execResult, refused, pureVars, stopCoreCalls>>

\* The host's answer to startDebugging for node i. On win32 (lines 220-223)
\* a refusal is thrown in executeLaunchRequest and rejects the Promise.all; on
\* the other platforms (lines 308-311) it is thrown inside the line callback,
\* where the invocation, which has returned, does not see it
StartDebuggingReply(i, launched) ==
    /\ i \in starting
    /\ starting' = starting \ {i}
    /\ refused' = IF launched THEN refused ELSE refused \cup {i}
    /\ IF launchPc = "startingSessions"
       THEN IF launched
            THEN /\ debug_count' = debug_count + 1
                 /\ IF starting' = {}
                    THEN StartOrClear(debug_count + 1, processesToLaunch)
                    ELSE NoSpawn /\ UNCHANGED <<launchPc, launchError, processesToLaunch>>
            ELSE /\ Throw("session")
                 /\ NoSpawn
                 /\ UNCHANGED <<debug_count, processesToLaunch>>
       ELSE NoSpawn /\ UNCHANGED <<launchPc, launchError, debug_count, processesToLaunch>>
    /\ UNCHANGED <<sessions, stopping, stopAll, stopCoreAfterDebug,
                   stopLaunchedNodes, attachTerminalsToProcesses,
                   terminateOnTerminalClosed, hostSession, coreRunning,
                   stopCall, pendingStop, killCall, stopRequests,
                   platform, timeWaited, nodes, sniffing, startCoreCalls,
                   evaluatorCalls, startRequests, gateSawReady,
                   resolver, target, decisions, execResult, pureVars, stopCoreCalls>>

\* lines 247-308 (not win32): the first line of the executable of node i is
\* read and the host is asked to start the session; the answer comes to the
\* line callback (lines 308-311), after executeLaunchRequest has returned
LineRead(i) ==
    /\ i \in sniffing
    /\ sniffing' = sniffing \ {i}
    /\ starting' = starting \cup {i}
    /\ startRequests' = startRequests + 1
    /\ UNCHANGED <<groupVars, platform, launchPc, launchError, timeWaited, nodes,
                   debug_count, processesToLaunch, startCoreCalls,
                   evaluatorCalls, gateSawReady,
                   resolver, target, decisions, execResult, refused, pureVars, stopCoreCalls>>

\* lines 239-247 (not win32): the executable of node i is an empty file; its
\* read stream ends without a 'line' event, so the callback never runs
StreamEnds(i) ==
    /\ i \in sniffing
    /\ sniffing' = sniffing \ {i}
    /\ UNCHANGED <<groupVars, platform, launchPc, launchError, timeWaited, nodes,
                   debug_count, processesToLaunch, starting, startCoreCalls,
                   evaluatorCalls, startRequests, gateSawReady,
                   resolver, target, decisions, execResult, refused, pureVars, stopCoreCalls>>

\* ------------------------------------------- executableOrNodeMatchWhitelist
\* A string is the sequence of its characters.
\* Array.prototype.join("/")
RECURSIVE Join(_)
Join(parts) ==
    IF parts = <<>> THEN <<>>
    ELSE IF Len(parts) = 1 THEN parts[1]
    ELSE parts[1] \o <<"/">> \o Join(Tail(parts))

RECURSIVE SplitFrom(_, _)
SplitFrom(s, cur) ==
    IF s = <<>> THEN <<cur>>
    ELSE IF Head(s) = "/" THEN <<cur>> \o SplitFrom(Tail(s), <<>>)
    ELSE SplitFrom(Tail(s), Append(cur, Head(s)))

\* String.prototype.split("/")
Split(s) == SplitFrom(s, <<>>)

\* Array.prototype.indexOf, counted from 0; -1 when absent
IndexOf(list, x) ==
    IF \E i \in 1..Len(list) : list[i] = x
    THEN (CHOOSE i \in 1..Len(list) : list[i] = x /\ \A j \in 1..(i - 1) : list[j] # x) - 1
    ELSE -1

PrefixLengthsThroughLast(n) == 1..n

\* for (let i = 1; i < parts.length; i++)
PrefixLengths(n) == 1..(n - 1)

NoSuffixRuleForLeadingSlash(parts) == parts[1] = <<>> \/ Len(parts) < 2

\* if (parts[0] === "/" || parts.length < 2) { return false; }
NoSuffixRule(parts) == parts[1] = <<"/">> \/ Len(parts) < 2

\* for (let i = parts.length - 2; i > 0; i--), i counted from 0
SuffixStarts(n) == 1..(n - 2)

executableOrNodeMatchWhitelist(list, name, node) ==
    LET parts == Split(node)
        n == Len(parts)
    IN  IF IndexOf(list, name) # -1 THEN TRUE
        ELSE IF IndexOf(list, node) # -1 THEN TRUE
        ELSE IF IndexOf(list, <<"/">> \o parts[n]) # -1 THEN TRUE
        ELSE IF \E i \in PrefixLengths(n) :
                   IndexOf(list, Join(SubSeq(parts, 1, i)) \o <<"/">>) # -1 THEN TRUE
        ELSE IF NoSuffixRule(parts) THEN FALSE
        ELSE \E i \in SuffixStarts(n) : IndexOf(list, Join(SubSeq(parts, i + 1, n))) # -1

\* The inputs: names of up to MaxParts segments, each empty, "a" or "b"
Segments == {<<>>, <<"a">>, <<"b">>}
PartLists(n) == UNION {[1..k -> Segments] : k \in 1..n}
NodeNames == {Join(ps) : ps \in PartLists(MaxParts)}
ExecutableNames == {<<"a">>, <<"x">>}
Patterns == NodeNames \cup ExecutableNames
Whitelists == UNION {[1..k -> Patterns] : k \in 0..MaxWhitelist}

MatchIdle ==
    /\ whitelist = <<>>
    /\ executableName = <<>>
    /\ nodeName = <<>>
    /\ matched = "none"

MatchInputs ==
    /\ whitelist \in Whitelists
    /\ executableName \in ExecutableNames
    /\ nodeName \in NodeNames
    /\ matched = "none"

Match ==
    /\ matched = "none"
    /\ matched' = IF executableOrNodeMatchWhitelist(whitelist, executableName, nodeName)
                  THEN "true" ELSE "false"
    /\ UNCHANGED <<groupVars, launchVars, stopCoreCalls, whitelist, executableName, nodeName, parseVars,
                   classifyVars>>

\* ------------------------------------------------------------ parseCommand
\* A token of shell_quote.parse: a string, or an object for a shell operator
StringToken(text) == [kind |-> "string", text |-> text]
OperatorToken(text) == [kind |-> "op", text |-> text]

ObjectObject == <<"[", "o", "b", "j", "e", "c", "t", " ", "O", "b", "j", "e", "c", "t", "]">>
SetWord == <<"s", "e", "t">>

\* ParseEntry.toString()
TokenToString(token) == IF token.kind = "op" THEN ObjectObject ELSE token.text

\* command.replace(/[\\]/g, "\\$&"): every backslash is doubled
RECURSIVE EscapeBackslash(_)
EscapeBackslash(s) ==
    IF s = <<>> THEN <<>>
    ELSE IF Head(s) = "\\" THEN <<"\\", "\\">> \o EscapeBackslash(Tail(s))
    ELSE <<Head(s)>> \o EscapeBackslash(Tail(s))

\* shell_quote.parse on command lines of letters, digits, "=", "-", "/", blanks,
\* "&", backslashes and balanced double quotes: blanks separate the tokens,
\* "&&" and "&" are operators, a backslash outside quotes escapes the next
\* character, inside double quotes it escapes a double quote or a backslash
\* and is kept before anything else
RECURSIVE Lex(_, _, _, _, _)
Lex(s, i, word, inWord, quoted) ==
    LET flush == IF inWord THEN <<StringToken(word)>> ELSE <<>>
    IN  IF i > Len(s) THEN flush
        ELSE IF quoted
        THEN IF s[i] = "\"" THEN Lex(s, i + 1, word, TRUE, FALSE)
             ELSE IF s[i] = "\\" /\ i < Len(s)
             THEN IF s[i + 1] \in {"\"", "\\"}
                  THEN Lex(s, i + 2, Append(word, s[i + 1]), TRUE, TRUE)
                  ELSE Lex(s, i + 2, word \o <<"\\", s[i + 1]>>, TRUE, TRUE)
             ELSE Lex(s, i + 1, Append(word, s[i]), TRUE, TRUE)
        ELSE IF s[i] = " " THEN flush \o Lex(s, i + 1, <<>>, FALSE, FALSE)
        ELSE IF s[i] = "&"
        THEN IF i < Len(s) /\ s[i + 1] = "&"
             THEN flush \o <<OperatorToken(<<"&", "&">>)>> \o Lex(s, i + 2, <<>>, FALSE, FALSE)
             ELSE flush \o <<OperatorToken(<<"&">>)>> \o Lex(s, i + 1, <<>>, FALSE, FALSE)
        ELSE IF s[i] = "\"" THEN Lex(s, i + 1, word, TRUE, TRUE)
        ELSE IF s[i] = "\\"
        THEN IF i < Len(s) THEN Lex(s, i + 2, Append(word, s[i + 1]), TRUE, FALSE)
             ELSE Lex(s, i + 1, word, TRUE, FALSE)
        ELSE Lex(s, i + 1, Append(word, s[i]), TRUE, FALSE)

ShellParse(s) == Lex(s, 1, <<>>, FALSE, FALSE)

\* String.prototype.includes
Includes(s, c) == \E i \in 1..Len(s) : s[i] = c

LastIndexOfEq(s) == CHOOSE i \in 1..Len(s) : s[i] = "=" /\ \A j \in (i + 1)..Len(s) : s[j] # "="

\* arg.indexOf("="), counted from 1
IndexOfEq(s) == CHOOSE i \in 1..Len(s) : s[i] = "=" /\ \A j \in 1..(i - 1) : s[j] # "="

\* envConfig[key] = value
Put(env, key, value) ==
    [k \in DOMAIN env \cup {key} |-> IF k = key THEN value ELSE env[k]]

Undefined == <<"undefined">>

ExecutableUndefined(env) ==
    [status |-> "ok", executable |-> Undefined, args |-> <<>>, envConfig |-> env]

\* parsedArgs[0].toString() on an empty parsedArgs: a TypeError is thrown
HeadOfNone(env) == [status |-> "TypeError"]

\* lines 266-291: the while loop and the return
RECURSIVE ScanEnv(_, _, _)
ScanEnv(parsedArgs, envConfig, isWindows) ==
    IF parsedArgs = <<>> THEN HeadOfNone(envConfig)
    ELSE LET afterSet == IF isWindows /\ TokenToString(parsedArgs[1]) = SetWord
                         THEN Tail(parsedArgs) ELSE parsedArgs
         IN  IF afterSet = <<>> THEN HeadOfNone(envConfig)
             ELSE IF Includes(TokenToString(afterSet[1]), "=")
             THEN LET arg == TokenToString(afterSet[1])
                      eq == IndexOfEq(arg)
                      rest == Tail(afterSet)
                  IN  ScanEnv(IF isWindows /\ rest # <<>> /\ rest[1].kind = "op"
                              THEN Tail(rest) ELSE rest,
                              Put(envConfig, SubSeq(arg, 1, eq - 1),
                                  SubSeq(arg, eq + 1, Len(arg))),
                              isWindows)
             ELSE [status |-> "ok",
                   executable |-> TokenToString(afterSet[1]),
                   args |-> [i \in 1..(Len(afterSet) - 1) |-> TokenToString(afterSet[i + 1])],
                   envConfig |-> envConfig]

\* lines 256-263: the tokens the loop starts from; on win32 the third token of
\* the escaped command is escaped and parsed again
ParsedArgs(cmd, isWindows) ==
    IF isWindows
    THEN LET outer == ShellParse(EscapeBackslash(cmd))
         IN  IF Len(outer) < 3 THEN [status |-> "TypeError"]
             ELSE [status |-> "ok",
                   tokens |-> ShellParse(EscapeBackslash(TokenToString(outer[3])))]
    ELSE [status |-> "ok", tokens |-> ShellParse(cmd)]

parseCommand(cmd, isWindows) ==
    LET first == ParsedArgs(cmd, isWindows)
    IN  IF first.status = "ok"
        THEN ScanEnv(first.tokens, [k \in {} |-> <<>>], isWindows)
        ELSE [status |-> "TypeError"]

\* The inputs: up to MaxTokens words separated by blanks, as they are or as
\* the third token of a cmd /c "..." line, and the command of the example
Words == {<<"A", "=", "1">>, <<"A", "=", "b", "=", "c">>, <<"B", "=">>, <<"x">>,
          <<"-", "f", "=", "v">>, <<"&", "&">>, <<"s", "e", "t">>, <<"p", "\\", "x">>}

RECURSIVE JoinWords(_)
JoinWords(ws) ==
    IF ws = <<>> THEN <<>>
    ELSE IF Len(ws) = 1 THEN ws[1]
    ELSE ws[1] \o <<" ">> \o JoinWords(Tail(ws))

Wrapped(cmd) == <<"c", " ", "/", "c", " ", "\"">> \o cmd \o <<"\"">>

\* FOO=bar BAZ=1 /usr/bin/node --flag val
ExampleWords ==
    <<<<"F", "O", "O", "=", "b", "a", "r">>,
      <<"B", "A", "Z", "=", "1">>,
      <<"/", "u", "s", "r", "/", "b", "i", "n", "/", "n", "o", "d", "e">>,
      <<"-", "-", "f", "l", "a", "g">>,
      <<"v", "a", "l">>>>

ExampleCommand == JoinWords(ExampleWords)

WordLines == {JoinWords(ws) : ws \in UNION {[1..k -> Words] : k \in 0..MaxTokens}}

Commands ==
    WordLines \cup {Wrapped(c) : c \in WordLines}
        \cup {ExampleCommand, Wrapped(ExampleCommand)}

ParseIdle ==
    /\ command = <<>>
    /\ parsed = [status |-> "none"]

ParseInputs ==
    /\ command \in Commands
    /\ parsed = [status |-> "none"]

Parse ==
    /\ parsed.status = "none"
    /\ parsed' = parseCommand(command, platform = "win32")
    /\ UNCHANGED <<groupVars, launchVars, stopCoreCalls, matchVars, command, classifyVars>>

\* -------------------------------------------------------------------- Spec
\* ---------------------------------------------------- generateLaunchRequest
\* The position of the last c in s, counted from 1; 0 when absent
LastIndexOfChar(s, c) ==
    IF \E i \in 1..Len(s) : s[i] = c
    THEN CHOOSE i \in 1..Len(s) : s[i] = c /\ \A j \in (i + 1)..Len(s) : s[j] # c
    ELSE 0

\* The last portion of a path: what follows its last "/"
BaseOf(p) == SubSeq(p, LastIndexOfChar(p, "/") + 1, Len(p))

\* path.extname: from the last "." of the last portion to its end, the "."
\* included; empty when there is no "." or when the portion begins with its
\* only "."
extname(p) ==
    LET base == BaseOf(p)
        dot == LastIndexOfChar(base, ".")
    IN IF dot <= 1 THEN <<>> ELSE SubSeq(base, dot, Len(base))

EndsWith(s, suffix) ==
    /\ Len(suffix) <= Len(s)
    /\ SubSeq(s, Len(s) - Len(suffix) + 1, Len(s)) = suffix

\* path.basename(p, ext): the last portion, without ext when it ends with it
basename(p, ext) ==
    LET base == BaseOf(p)
    IN IF ext # <<>> /\ ext # base /\ EndsWith(base, ext)
       THEN SubSeq(base, 1, Len(base) - Len(ext))
       ELSE base

\* line 140: ["bash", "sh", "bat", "cmd", "ps1"]
ScriptExtensions ==
    << <<"b", "a", "s", "h">>, <<"s", "h">>, <<"b", "a", "t">>,
       <<"c", "m", "d">>, <<"p", "s", "1">> >>

\* An optional list of config: undefined, null or an array
NoList(kind) == [kind |-> kind, items |-> <<>>]
ArrayOf(items) == [kind |-> "array", items |-> items]

\* line 132: config.launch && ...: an array, even an empty one, is truthy
Truthy(list) == list.kind = "array"

ExecutableJustLaunched(list, name, node) ==
    Truthy(list) /\ IndexOf(list.items, name) # -1

\* line 132: config.launch && executableOrNodeMatchWhitelist(config.launch, ...)
JustLaunched(list, name, node) ==
    Truthy(list) /\ executableOrNodeMatchWhitelist(list.items, name, node)

\* lines 139-140: executableExt && [...].includes(executableExt)
ScriptFiltered(ext) == ext # <<>> /\ Includes(ScriptExtensions, ext)

AttachDebuggerAbsentOrEmpty(list) ==
    list.kind \in {"undefined", "null"} \/ list.items = <<>>

\* line 146: config.attachDebugger == null holds of null and of undefined
AttachDebuggerAbsent(list) == list.kind \in {"undefined", "null"}

\* lines 122-167: "null" when no launch request is made (the node is just
\* launched), "request" when one is (the node is debugged)
generateLaunchRequest(launchList, attachList, exe, node) ==
    LET name == basename(exe, extname(exe))
    IN IF JustLaunched(launchList, name, node) THEN "null"
       ELSE IF ScriptFiltered(extname(exe)) THEN "null"
       ELSE IF \/ AttachDebuggerAbsent(attachList)
               \/ executableOrNodeMatchWhitelist(attachList.items, name, node)
            THEN "request"
            ELSE "null"

\* The inputs: lists of up to MaxWhitelist patterns
ClassifyPatterns ==
    {<<"a">>, <<"x">>, <<"/", "a">>, <<"/", "b", "/">>, <<"b", "/", "a">>}

ClassifyLists ==
    {NoList("undefined"), NoList("null")}
        \cup {ArrayOf(l) : l \in UNION {[1..k -> ClassifyPatterns] : k \in 0..MaxWhitelist}}

ClassifyNodeNames ==
    {<<"/", "a">>, <<"/", "b", "/", "a">>, <<"/", "b", "/", "b">>, <<"c", "/", "b", "/", "a">>}

Executables ==
    {<<"a">>, <<"x">>,
     <<"a", ".", "s", "h">>, <<"x", ".", "s", "h">>, <<"x", ".", "p", "y">>,
     <<"/", "b", "/", "x", ".", "b", "a", "s", "h">>, <<"x", ".", "c", "m", "d">>,
     <<"/", "b", ".", "s", "h", "/", "a">>}

ClassifyIdle ==
    /\ launch = NoList("undefined")
    /\ attachDebugger = NoList("undefined")
    /\ executable = <<>>
    /\ launchRequest = "none"

ClassifyInputs ==
    /\ launch \in ClassifyLists
    /\ attachDebugger \in ClassifyLists
    /\ executable \in Executables
    /\ launchRequest = "none"

Classify ==
    /\ launchRequest = "none"
    /\ launchRequest' = generateLaunchRequest(launch, attachDebugger, executable, nodeName)
    /\ UNCHANGED <<groupVars, launchVars, stopCoreCalls, matchVars, parseVars,
                   launch, attachDebugger, executable>>

\* The launch group under its stop cascade. A launch invocation registers its
\* request before it starts anything; then sessions start and stop, plain
\* processes are spawned and their terminals closed; the children run until
\* they are killed. The request keeps the two terminal options at true.
CascadeConfigs ==
    {c \in Configs : /\ c.attachTerminalsToProcesses = "true"
                     /\ c.terminateOnTerminalClosed = "true"}

\* Nothing of a launch invocation has been started yet
Fresh ==
    /\ \A s \in Sessions : hostSession[s] = "new"
    /\ \A p \in Procs : child[p] = "unspawned"

Init ==
    /\ GroupInit
    /\ platform = "linux"
    /\ NoRequest
    /\ LaunchIdle
    /\ MatchIdle
    /\ ParseIdle
    /\ ClassifyIdle

Next ==
    \/ Fresh /\ (\E c \in CascadeConfigs : RegisterLaunchRequest(c)) /\ UNCHANGED restVars
    \/ (\E s \in Sessions : SessionStarted(s)) /\ UNCHANGED restVars
    \/ (\E s \in Sessions : SessionStopped(s)) /\ UNCHANGED restVars
    \/ (\E s \in Sessions, t \in Sessions : StopDebuggingDone(s, t)) /\ UNCHANGED restVars
    \/ (\E s \in Sessions : CoreStatusReply(s)) /\ UNCHANGED restVars
    \/ (\E p \in LaunchProcs : Spawn(p)) /\ UNCHANGED restVars
    \/ (\E p \in Procs : TerminalClosed(p)) /\ UNCHANGED restVars
    \/ (\E k \in KillKeys : KillProbe1(k)) /\ UNCHANGED restVars
    \/ (\E k \in KillKeys : KillProbe2(k)) /\ UNCHANGED restVars
    \/ Advance(KillGraceInt) /\ UNCHANGED restVars
    \/ CoreStarts /\ UNCHANGED restVars

Spec == Init /\ [][Next]_vars

\* The kill escalation on its clock: the processes of one launch are killed by
\* the stop of its debug session or by closing their terminals, and a child
\* may exit at any moment; time passes one unit at a time
FirstSession == {s \in Sessions : \A t \in Sessions : s <= t}

NextKill ==
    \/ (\E s \in FirstSession : SessionStarted(s)) /\ UNCHANGED restVars
    \/ (\E s \in FirstSession : SessionStopped(s)) /\ UNCHANGED restVars
    \/ (\E s \in FirstSession : CoreStatusReply(s)) /\ UNCHANGED restVars
    \/ (\E p \in LaunchProcs : Spawn(p)) /\ UNCHANGED restVars
    \/ (\E p \in Procs : TerminalClosed(p)) /\ UNCHANGED restVars
    \/ (\E k \in KillKeys : KillProbe1(k)) /\ UNCHANGED restVars
    \/ (\E k \in KillKeys : KillProbe2(k)) /\ UNCHANGED restVars
    \/ (\E p \in Procs : ChildExits(p)) /\ UNCHANGED restVars
    \/ Advance(1) /\ UNCHANGED restVars

SpecKill == Init /\ [][NextKill]_vars

\* The terminals of the plain processes: a launch invocation registers its
\* request, under either stop policy, with or without terminals, and with
\* terminateOnTerminalClosed true, false or unset; its
\* processes are spawned, their terminals are closed at any moment, and its
\* debug session starts and stops
TerminalConfigs ==
    {c \in Configs : /\ c.stopAll \in {"true", "false"}
                     /\ c.stopCoreAfterDebug = "false"
                     /\ c.stopLaunchedNodes = "true"
                     /\ c.attachTerminalsToProcesses \in {"true", "false"}}

NextTerminal ==
    \/ Fresh /\ (\E c \in TerminalConfigs : RegisterLaunchRequest(c)) /\ UNCHANGED restVars
    \/ (\E s \in FirstSession : SessionStarted(s)) /\ UNCHANGED restVars
    \/ (\E s \in FirstSession : SessionStopped(s)) /\ UNCHANGED restVars
    \/ (\E s \in FirstSession : CoreStatusReply(s)) /\ UNCHANGED restVars
    \/ (\E p \in Procs : Spawn(p)) /\ UNCHANGED restVars
    \/ (\E p \in Procs : TerminalClosed(p)) /\ UNCHANGED restVars
    \/ (\E k \in KillKeys : KillProbe1(k)) /\ UNCHANGED restVars
    \/ (\E k \in KillKeys : KillProbe2(k)) /\ UNCHANGED restVars
    \/ (\E p \in Procs : ChildExits(p)) /\ UNCHANGED restVars
    \/ Advance(KillGraceInt) /\ UNCHANGED restVars

SpecTerminal == Init /\ [][NextTerminal]_vars

\* The ROS core under the group stop: a launch invocation registers its
\* request with any stop policy and any stopCoreAfterDebug, its sessions start
\* and stop and its process is spawned, and the core runs or not and may be
\* started from outside at any moment. The calls of rosApi.stopCore() are
\* counted.
CoreConfigs ==
    {c \in CascadeConfigs : c.stopLaunchedNodes = "true"}

\* lines 94-98: the answer to getCoreStatus(), with stopCore() at line 95
StopAllProcessesEnds(s) ==
    /\ CoreStatusReply(s)
    /\ stopCoreCalls' = stopCoreCalls + (IF StopsCore(coreRunning) THEN 1 ELSE 0)
    /\ UNCHANGED <<launchVars, matchVars, parseVars, classifyVars>>

NextCore ==
    \/ Fresh /\ (\E c \in CoreConfigs : RegisterLaunchRequest(c)) /\ UNCHANGED restVars
    \/ (\E s \in Sessions : SessionStarted(s)) /\ UNCHANGED restVars
    \/ (\E s \in Sessions : SessionStopped(s)) /\ UNCHANGED restVars
    \/ (\E s \in Sessions, t \in Sessions : StopDebuggingDone(s, t)) /\ UNCHANGED restVars
    \/ \E s \in Sessions : StopAllProcessesEnds(s)
    \/ (\E p \in LaunchProcs : Spawn(p)) /\ UNCHANGED restVars
    \/ (\E k \in Sessions : KillProbe1(k)) /\ UNCHANGED restVars
    \/ (\E k \in Sessions : KillProbe2(k)) /\ UNCHANGED restVars
    \/ Advance(KillGraceInt) /\ UNCHANGED restVars
    \/ CoreStarts /\ UNCHANGED restVars

SpecCore == Init /\ [][NextCore]_vars

\* The launch group when the host may fail a stop request: as the stop
\* cascade, and vscode.debug.stopDebugging may reject
NextReject ==
    \/ Fresh /\ (\E c \in CoreConfigs : RegisterLaunchRequest(c)) /\ UNCHANGED restVars
    \/ (\E s \in Sessions : SessionStarted(s)) /\ UNCHANGED restVars
    \/ (\E s \in Sessions : SessionStopped(s)) /\ UNCHANGED restVars
    \/ (\E s \in Sessions, t \in Sessions : StopDebuggingDone(s, t)) /\ UNCHANGED restVars
    \/ (\E s \in Sessions, t \in Sessions : StopDebuggingFails(s, t)) /\ UNCHANGED restVars
    \/ (\E s \in Sessions : CoreStatusReply(s)) /\ UNCHANGED restVars
    \/ (\E p \in LaunchProcs : Spawn(p)) /\ UNCHANGED restVars
    \/ (\E k \in Sessions : KillProbe1(k)) /\ UNCHANGED restVars
    \/ (\E k \in Sessions : KillProbe2(k)) /\ UNCHANGED restVars
    \/ Advance(KillGraceInt) /\ UNCHANGED restVars
    \/ CoreStarts /\ UNCHANGED restVars

SpecReject == Init /\ [][NextReject]_vars

\* One launch invocation of the resolver, on either platform, with the ROS
\* core running or not and started from outside at any moment
InitLaunch ==
    /\ GroupInit
    /\ platform \in Platforms
    /\ resolver \in Resolvers
    /\ target \in Targets
    /\ LaunchIdle
    /\ MatchIdle
    /\ ParseIdle
    /\ ClassifyIdle

NextLaunch ==
    \/ ResolveDebugConfiguration
    \/ ResolveDebugLaunch
    \/ \E launched \in BOOLEAN : DumperStartReply(launched)
    \/ GateStatusReply
    \/ GatePollReply
    \/ GateDelayOver
    \/ \E r \in ExecResults : DumpParamsReply(r)
    \/ /\ launchPc = "listNodes"
       /\ \E r \in ExecResults, ns \in NodeLists, c \in Configs : ListNodesReply(r, ns, c)
    \/ NodeArgsReply
    \/ \E i \in starting, launched \in BOOLEAN : StartDebuggingReply(i, launched)
    \/ \E i \in sniffing : LineRead(i)
    \/ \E i \in sniffing : StreamEnds(i)
    \/ CoreStarts /\ UNCHANGED restVars

SpecLaunch == InitLaunch /\ [][NextLaunch]_vars

\* Launch invocations one after the other on one provider, with the ROS core
\* running: the host calls the resolver again once the previous invocation has
\* ended and the host has answered its requests. The locals and the history
\* of the invocation are new; processesToLaunch is a field of the provider and
\* stays as the previous invocation left it. The next invocation is taken
\* while no process has been spawned and the processes it may queue are left
\* in Procs.
Relaunch ==
    /\ launchPc \in {"returned", "failed"}
    /\ sniffing = {}
    /\ starting = {}
    /\ processes = <<>>
    /\ Len(processesToLaunch) + MaxProcs <= Cardinality(Procs)
    /\ launchPc' = "idle"
    /\ launchError' = "none"
    /\ timeWaited' = 0
    /\ nodes' = <<>>
    /\ debug_count' = 0
    /\ startCoreCalls' = 0
    /\ evaluatorCalls' = 0
    /\ startRequests' = 0
    /\ gateSawReady' = FALSE
    /\ decisions' = <<>>
    /\ execResult' = "none"
    /\ refused' = {}
    /\ UNCHANGED <<groupVars, platform, processesToLaunch, sniffing, starting,
                   resolver, target, pureVars, stopCoreCalls>>

InitRelaunch ==
    /\ GroupInit
    /\ coreRunning = TRUE
    /\ platform \in Platforms
    /\ NoRequest
    /\ LaunchIdle
    /\ MatchIdle
    /\ ParseIdle
    /\ ClassifyIdle

NextRelaunch ==
    \/ ResolveDebugConfiguration
    \/ GateStatusReply
    \/ \E r \in ExecResults : DumpParamsReply(r)
    \/ /\ launchPc = "listNodes"
       /\ \E r \in ExecResults, ns \in NodeLists, c \in CascadeConfigs : ListNodesReply(r, ns, c)
    \/ NodeArgsReply
    \/ \E i \in starting, launched \in BOOLEAN : StartDebuggingReply(i, launched)
    \/ \E i \in sniffing : LineRead(i)
    \/ \E i \in sniffing : StreamEnds(i)
    \/ Relaunch

SpecRelaunch == InitRelaunch /\ [][NextRelaunch]_vars

\* One launch invocation together with the debug sessions it asks for, with
\* the ROS core running. The host answers a start request either with a
\* refusal or by starting a session (sessionStarted) and then resolving
\* startDebugging to true; a session ends only after its request was answered.
StartedSessions == {s \in Sessions : hostSession[s] # "new"}

\* The start requests the host has resolved to true
Accepted == startRequests - Cardinality(starting) - Cardinality(refused)

\* The sessions started whose startDebugging has not resolved yet
Unanswered == Cardinality(StartedSessions) - Accepted

HostStartsSession(s) ==
    /\ Unanswered < Cardinality(starting)
    /\ SessionStarted(s)
    /\ UNCHANGED restVars

HostAnswers(i, launched) ==
    /\ IF launched THEN Unanswered > 0 ELSE Unanswered < Cardinality(starting)
    /\ StartDebuggingReply(i, launched)

HostEndsSession(s) ==
    /\ Unanswered = 0
    /\ SessionStopped(s)
    /\ UNCHANGED restVars

\* The requests of the invocation: either stop policy, the other options as
\* the handler's defaults
InvocationConfigs ==
    {c \in CoreConfigs : c.stopAll # "undefined" /\ c.stopCoreAfterDebug = "false"}

NextInvocation ==
    \/ ResolveDebugConfiguration
    \/ GateStatusReply
    \/ \E r \in ExecResults : DumpParamsReply(r)
    \/ /\ launchPc = "listNodes"
       /\ \E r \in ExecResults, ns \in NodeLists, c \in InvocationConfigs : ListNodesReply(r, ns, c)
    \/ NodeArgsReply
    \/ \E i \in sniffing : LineRead(i)
    \/ \E i \in sniffing : StreamEnds(i)
    \/ \E s \in Sessions : HostStartsSession(s)
    \/ \E i \in starting, launched \in BOOLEAN : HostAnswers(i, launched)
    \/ \E s \in Sessions : HostEndsSession(s)
    \/ (\E s \in Sessions, t \in Sessions : StopDebuggingDone(s, t)) /\ UNCHANGED restVars
    \/ (\E s \in Sessions : CoreStatusReply(s)) /\ UNCHANGED restVars
    \/ (\E k \in Sessions : KillProbe1(k)) /\ UNCHANGED restVars
    \/ (\E k \in Sessions : KillProbe2(k)) /\ UNCHANGED restVars
    \/ Advance(KillGraceInt) /\ UNCHANGED restVars

SpecInvocation == InitRelaunch /\ [][NextInvocation]_vars

\* executableOrNodeMatchWhitelist applied to every input
InitMatch ==
    /\ GroupInit
    /\ coreRunning = FALSE
    /\ platform = "linux"
    /\ NoRequest
    /\ LaunchIdle
    /\ MatchInputs
    /\ ParseIdle
    /\ ClassifyIdle

NextMatch == Match

SpecMatch == InitMatch /\ [][NextMatch]_vars

\* parseCommand applied to every input on either platform
InitParse ==
    /\ GroupInit
    /\ coreRunning = FALSE
    /\ platform \in Platforms
    /\ NoRequest
    /\ LaunchIdle
    /\ MatchIdle
    /\ ParseInputs
    /\ ClassifyIdle

NextParse == Parse

SpecParse == InitParse /\ [][NextParse]_vars

\* generateLaunchRequest applied to every input
InitClassify ==
    /\ GroupInit
    /\ coreRunning = FALSE
    /\ platform = "linux"
    /\ NoRequest
    /\ LaunchIdle
    /\ whitelist = <<>>
    /\ executableName = <<>>
    /\ nodeName \in ClassifyNodeNames
    /\ matched = "none"
    /\ ParseIdle
    /\ ClassifyInputs

NextClassify == Classify

SpecClassify == InitClassify /\ [][NextClassify]_vars

\* ================================================================== claims
\* The step is the delivery of the stop notification of session s
StopNotified(s) == stopCall[s].pc = "none" /\ stopCall'[s].pc # "none"

\* The sessionStopped call of session s is between two of its awaits
InFlight(s) == stopCall[s].pc \in {"stopSessions", "killProcs", "coreStatus"}

StopAllInFlight == {s \in Sessions : stopCall[s].branch = "all" /\ InFlight(s)}

Escalation == <<"SIGINT", "SIGTERM", "SIGKILL">>

IsPrefix(a, b) == Len(a) <= Len(b) /\ \A i \in 1..Len(a) : a[i] = b[i]

\* The step is a probe of kill call k
ProbeStep(k) == Sleeping(killCall[k]) /\ killCall'[k].pc # killCall[k].pc

\* ---- C1 ----
C1_Step ==
    \A s \in Sessions :
        (StopNotified(s) /\ stopAll = "true" /\ stopping) =>
            /\ stopCall'[s].pc = "done"
            /\ \A t \in Sessions \ {s} : stopCall'[t] = stopCall[t]
            /\ UNCHANGED <<sessions, processes, terminals, stopping, pendingStop,
                           stopRequests, killCall, child, coreRunning>>

C1_OnePass ==
    /\ Cardinality(StopAllInFlight) <= 1
    /\ stopping <=> StopAllInFlight # {}

\* C1: under stopAll = true a stop notification that arrives while the stopping
\* guard is set changes nothing: no session is asked to stop, no signal is
\* sent, no kill call begins; so at most one stopAll teardown is in flight at
\* any time, and the guard is set exactly while one is.
C1_GuardedStopIsNoOp == [][C1_Step]_vars /\ []C1_OnePass

\* A second notification was ignored while the teardown it would have repeated
\* is killing the processes
C1_Witness ==
    \E s, t \in Sessions :
        /\ stopCall[s].branch = "guarded"
        /\ stopCall[t].branch = "all"
        /\ killCall[t].pc = "grace1"
        /\ stopping

\* ---- C2 ----
C2_Step ==
    \A s \in Sessions :
        /\ (StopNotified(s) /\ stopAll = "false") =>
            /\ sessions' = Filter(sessions, Sessions \ {s})
            /\ \A k \in KillKeys \ {s} : killCall'[k] = killCall[k]
            /\ processes' = processes
            /\ IF SeqToSet(sessions) \ {s} # {}
               THEN killCall'[s] = killCall[s] /\ stopCall'[s].pc = "done"
               ELSE /\ stopCall'[s].branch = "last"
                    /\ InFlight(s)'
                    /\ killCall'[s].sigs =
                         [p \in Procs |->
                            IF p \in SeqToSet(processes) /\ stopLaunchedNodes # "false"
                            THEN <<"SIGINT">> ELSE <<>>]
        /\ (killCall[s].pc = "none" /\ killCall'[s].pc # "none"
              /\ stopCall'[s].branch = "last") =>
            (StopNotified(s) /\ sessions' = <<>>)

C2_NotBefore ==
    \A s \in Sessions :
        /\ stopCall[s].branch = "kept" => killCall[s] = NoKill
        /\ killCall[s].pc # "none" => stopCall[s].branch \in {"all", "last"}

\* C2: under stopAll = false a stop notification removes only the stopped
\* session; while another tracked session remains it sends no signal and
\* begins no teardown; the notification that empties the session set begins
\* the teardown, in which every plain process of the process set is sent
\* SIGINT exactly once (none when stopLaunchedNodes is false); a teardown of
\* this branch never begins in any other step.
C2_TeardownWhenLastStops == [][C2_Step]_vars /\ []C2_NotBefore

\* One session stopped and was only removed; the stop of the last one began
\* the teardown that is now killing the plain process
C2_Witness ==
    \E s, t \in Sessions :
        /\ stopAll = "false"
        /\ stopCall[s].branch = "kept"
        /\ stopCall[t].branch = "last"
        /\ killCall[t].pc = "grace1"
        /\ \E p \in Procs : killCall[t].sigs[p] = <<"SIGINT">>
        /\ sessions = <<>>

\* ---- C3 ----
C3_Order ==
    \A k \in KillKeys, p \in Procs :
        /\ IsPrefix(killCall[k].sigs[p], Escalation)
        /\ (killCall[k].pc = "done" /\ killCall[k].sigs[p] # <<>>
              /\ child[p] = "running") => killCall[k].sigs[p] = Escalation

C3_Step ==
    \A k \in KillKeys, p \in Procs :
        LET a == killCall[k].sigs[p]
            b == killCall'[k].sigs[p]
        IN /\ (a # <<>> /\ Len(b) > Len(a)) =>
                /\ child[p] = "running"
                /\ Len(b) = Len(a) + 1
                /\ Len(a) = 1 => (killCall[k].pc = "grace1"
                                    /\ killCall[k].elapsed >= KillGraceInt)
                /\ Len(a) = 2 => (killCall[k].pc = "grace2"
                                    /\ killCall[k].elapsed >= KillGraceTerm)
           /\ (ProbeStep(k) /\ child[p] # "running") => b = a
           /\ (ProbeStep(k) /\ child[p] = "running" /\ p \in Escalating(killCall[k])) =>
                b = Append(a, Escalation[Len(a) + 1])

\* C3: the signals of one killProcess call are a prefix of SIGINT, SIGTERM,
\* SIGKILL (that order, each at most once); SIGTERM is sent only after the
\* 5 units of the first sleep, SIGKILL only after the 2 units of the second;
\* a process that has exited when it is probed is sent nothing more, one that
\* runs is sent the next signal, so that a call that ends with its process
\* still running has sent all three.
C3_EscalationOrder == []C3_Order /\ [][C3_Step]_vars

\* One call went through the whole escalation, another ended after SIGINT
C3_Witness ==
    /\ \E k \in KillKeys, p \in Procs :
        killCall[k].pc = "done" /\ killCall[k].sigs[p] = Escalation
    /\ \E k \in KillKeys, p \in Procs :
        killCall[k].pc = "done" /\ killCall[k].sigs[p] = <<"SIGINT">>

\* ---- C4 ----
C4_Step ==
    \A k \in KillKeys :
        ProbeStep(k) =>
            /\ \A p \in Escalating(killCall[k]) :
                child[p] # "running" => killCall'[k].sigs[p] = killCall[k].sigs[p]
            /\ killCall'[k].pc \in {"grace2", "done"}
            /\ (\A p \in Escalating(killCall[k]) : child[p] # "running") =>
                /\ killCall'[k].pc = "done"
                /\ k \in Sessions => stopCall'[k].pc = "coreStatus"

C4_NoError ==
    /\ \A k \in KillKeys : killCall[k].pc # "raised"
    /\ \A s \in Sessions : stopCall[s].pc # "rejected"

\* C4: a probe that finds the process gone (p.kill(0) returns false or throws)
\* ends that killProcess call without a further signal and without an error:
\* the call completes and the teardown that awaits it goes on to the core
\* status query.
C4_ProbeFailureEndsEscalation == [][C4_Step]_vars /\ []C4_NoError

\* A first probe and a second probe both found their process gone
C4_Witness ==
    /\ \E k \in KillKeys, p \in Procs :
        /\ killCall[k].pc = "done" /\ killCall[k].sigs[p] = <<"SIGINT">>
        /\ child[p] = "exited"
    /\ \E k \in KillKeys, p \in Procs :
        /\ killCall[k].pc = "done" /\ killCall[k].sigs[p] = <<"SIGINT", "SIGTERM">>
        /\ child[p] = "exited"

\* ---- C5 ----
InGate == launchPc \in {"gateStatus", "gatePoll", "gateDelay"}

TimedOut == launchPc = "failed" /\ launchError = "timeout"

NothingLaunched ==
    /\ evaluatorCalls = 0
    /\ startRequests = 0
    /\ sniffing = {} /\ starting = {}
    /\ processesToLaunch = <<>>
    /\ processes = <<>>
    /\ \A p \in Procs : child[p] = "unspawned"

C5_Step ==
    /\ (launchPc = "gatePoll" /\ launchPc' # "gatePoll" /\ coreRunning = FALSE) =>
          IF timeWaited < timeout_ms
          THEN launchPc' = "gateDelay" /\ timeWaited' = timeWaited + interval_ms
          ELSE TimedOut'
    /\ TimedOut => (TimedOut' /\ UNCHANGED <<timeWaited, startCoreCalls, evaluatorCalls>>)

C5_Gate ==
    /\ timeWaited \in 0..timeout_ms
    /\ (InGate \/ TimedOut) => NothingLaunched
    /\ TimedOut => (timeWaited = timeout_ms /\ startCoreCalls = 1)

\* C5: when the core is not running, every poll of the gate that reports it
\* not ready adds 100 ms to the waited time and is followed by another poll
\* while the waited time is below 30000 ms; the not-ready poll made when the
\* waited time has reached 30000 ms throws the timeout error; the failed
\* invocation polls no more, and while the gate waits and after it has timed
\* out no evaluator was called, no process was spawned or queued and no debug
\* session was requested.
C5_GateTimeoutFailsLaunch == [][C5_Step]_vars /\ []C5_Gate

\* The gate timed out and no poll ever reported the core ready
C5_Witness ==
    /\ TimedOut
    /\ ~gateSawReady
    /\ ~coreRunning
    /\ timeWaited = timeout_ms

\* ---- C6 ----
NodeParts == Split(nodeName)

InWhitelist(x) == \E i \in 1..Len(whitelist) : whitelist[i] = x

\* The strings the rules look for: the executable name, the node name, "/" and
\* the last segment, every prefix of 1 to all-but-last segments followed by
\* "/", every suffix of at least two segments that is not the whole name
C6_Candidates ==
    LET n == Len(NodeParts)
    IN  {executableName, nodeName, <<"/">> \o NodeParts[n]}
          \cup {Join(SubSeq(NodeParts, 1, i)) \o <<"/">> : i \in 1..(n - 1)}
          \cup {Join(SubSeq(NodeParts, i, n)) : i \in 2..(n - 1)}

LeadingSlash == nodeName # <<>> /\ Head(nodeName) = "/"

\* The tail paths of the node name of at least two segments, without a leading
\* or a trailing slash
TailPaths ==
    LET n == Len(NodeParts)
    IN  {Join(SubSeq(NodeParts, i, n)) :
            i \in {j \in 2..(n - 1) : NodeParts[j] # <<>> /\ NodeParts[n] # <<>>}}

OtherRuleStrings ==
    LET n == Len(NodeParts)
    IN  {executableName, nodeName, <<"/">> \o NodeParts[n]}
          \cup {Join(SubSeq(NodeParts, 1, i)) \o <<"/">> : i \in 1..(n - 1)}

\* C8: the suffix rule is applied only to node names that do not start with
\* "/": for a node name starting with "/", a non-empty whitelist whose entries
\* are all tail paths of the name without a leading slash, none of them hit by
\* the executable-name, full-name, bare-name or prefix rule, yields false.
C8_NoSuffixRuleForAbsoluteName ==
    (/\ matched # "none"
     /\ LeadingSlash
     /\ whitelist # <<>>
     /\ \A i \in 1..Len(whitelist) :
           /\ whitelist[i] \in TailPaths
           /\ whitelist[i] \notin OtherRuleStrings) =>
        matched = "false"

\* ---- C9 ----
\* The token sequence the assignment scan of this command starts from
Scanned == ParsedArgs(command, platform = "win32")

IsAssignment(token) == Includes(TokenToString(token), "=")

\* What win32 discards around the assignments: set, and operator tokens
IsDiscarded(token) == token.kind = "op" \/ token.text = SetWord

FirstEq(s) == CHOOSE i \in 1..Len(s) : s[i] = "=" /\ \A j \in 1..(i - 1) : s[j] # "="
KeyOf(token) == SubSeq(token.text, 1, FirstEq(token.text) - 1)
ValueOf(token) == SubSeq(token.text, FirstEq(token.text) + 1, Len(token.text))

\* The assignments among the first k - 1 tokens, a later one replacing an
\* earlier one of the same key
AssignmentsBefore(tokens, k) == {i \in 1..(k - 1) : IsAssignment(tokens[i])}

EnvBefore(tokens, k) ==
    [key \in {KeyOf(tokens[i]) : i \in AssignmentsBefore(tokens, k)} |->
        LET last == CHOOSE i \in AssignmentsBefore(tokens, k) :
                        /\ KeyOf(tokens[i]) = key
                        /\ \A j \in AssignmentsBefore(tokens, k) :
                              KeyOf(tokens[j]) = key => j <= i
        IN  ValueOf(tokens[last])]

\* The result takes token k as the executable
SplitsAt(tokens, k, result) ==
    /\ ~IsAssignment(tokens[k])
    /\ \A i \in 1..(k - 1) :
          IsAssignment(tokens[i]) \/ (platform = "win32" /\ IsDiscarded(tokens[i]))
    /\ result.executable = TokenToString(tokens[k])
    /\ result.args = [i \in 1..(Len(tokens) - k) |-> TokenToString(tokens[k + i])]
    /\ result.envConfig = EnvBefore(tokens, k)

ExampleResult ==
    [status |-> "ok",
     executable |-> ExampleWords[3],
     args |-> <<ExampleWords[4], ExampleWords[5]>>,
     envConfig |-> [key \in {<<"F", "O", "O">>, <<"B", "A", "Z">>} |->
                      IF key = <<"F", "O", "O">> THEN <<"b", "a", "r">> ELSE <<"1">>]]

\* C9: the result of parseCommand takes as the executable the first token that
\* is not an assignment (a token containing "="); every token before it is an
\* assignment (on win32 also a discarded set or operator token) and is in the
\* environment mapping under the text before its first "=" with the text
\* after it as value; the tokens after the executable are the arguments, in
\* their order, whether they contain "=" or not. Elsewhere than on win32 every
\* command with a token that is not an assignment has such a result. The
\* tokens of FOO=bar BAZ=1 /usr/bin/node --flag val give executable
\* /usr/bin/node, arguments --flag, val and environment FOO: bar, BAZ: 1.
C9_AssignmentsExecutableArguments ==
    parsed.status # "none" =>
        /\ parsed.status = "ok" =>
              /\ Scanned.status = "ok"
              /\ \E k \in 1..Len(Scanned.tokens) : SplitsAt(Scanned.tokens, k, parsed)
        /\ (platform = "linux"
              /\ \E i \in 1..Len(Scanned.tokens) : ~IsAssignment(Scanned.tokens[i])) =>
              parsed.status = "ok"
        /\ (Scanned.status = "ok"
              /\ Scanned.tokens = [i \in 1..5 |-> StringToken(ExampleWords[i])]) =>
              parsed = ExampleResult

\* Two assignments of the same key, the executable, an argument with "="
C9_Witness ==
    /\ parsed.status = "ok"
    /\ platform = "linux"
    /\ Len(Scanned.tokens) = 4
    /\ IsAssignment(Scanned.tokens[1]) /\ IsAssignment(Scanned.tokens[2])
    /\ KeyOf(Scanned.tokens[1]) = KeyOf(Scanned.tokens[2])
    /\ Includes(Scanned.tokens[2].text, "=") /\ Includes(ValueOf(Scanned.tokens[2]), "=")
    /\ ~IsAssignment(Scanned.tokens[3])
    /\ IsAssignment(Scanned.tokens[4])
    /\ parsed.args = <<Scanned.tokens[4].text>>

\* ---- C10 ----
OnlyAssignments ==
    /\ Scanned.status = "ok"
    /\ \A i \in 1..Len(Scanned.tokens) : IsAssignment(Scanned.tokens[i])

\* C10: parseCommand throws for a command whose tokens are all assignments,
\* the empty command included, and returns no result then; a result it
\* returns has one of the tokens as its executable, never undefined.
C10_EmptyStreamFails ==
    parsed.status # "none" =>
        /\ OnlyAssignments => parsed.status = "TypeError"
        /\ parsed.status = "ok" =>
              /\ parsed.executable # Undefined
              /\ \E k \in 1..Len(Scanned.tokens) :
                    parsed.executable = TokenToString(Scanned.tokens[k])

\* A command of two assignments and nothing else was parsed
C10_Witness ==
    /\ parsed.status = "TypeError"
    /\ OnlyAssignments
    /\ Len(Scanned.tokens) = 2
    /\ platform = "linux"

\* ---- C11 ----
\* The executable name generateLaunchRequest matches: the executable without
\* its directories and its extension
ClassifiedName == basename(executable, extname(executable))

Classified == launchRequest # "none"

\* The node matches an optional list of config: the list is an array and the
\* executable name or the node name matches it
ListMatches(list) ==
    /\ list.kind = "array"
    /\ executableOrNodeMatchWhitelist(list.items, ClassifiedName, nodeName)

AttachAbsent == attachDebugger.kind \in {"undefined", "null"}

\* C11: a node whose executable name or node name matches config.launch is
\* classified plain launch (no launch request), whatever attachDebugger is:
\* absent, matching the node or not.
C11_LaunchListHasPriority ==
    (Classified /\ ListMatches(launch)) => launchRequest = "null"

\* Plain launch for a node that the launch list matches by its node name only
\* and that attachDebugger matches too, and for one with attachDebugger absent
C11_Witness ==
    /\ launchRequest = "null"
    /\ ListMatches(launch)
    /\ IndexOf(launch.items, ClassifiedName) = -1
    /\ ListMatches(attachDebugger)

\* ---- C12 ----
\* The executable ends in "." followed by one of bash, sh, bat, cmd, ps1
HasScriptExtension ==
    \E i \in 1..Len(ScriptExtensions) :
        extname(executable) = <<".">> \o ScriptExtensions[i]

\* C12 (the claim as stated; violated by the code): a node that the launch
\* list does not match and whose executable has a shell-script extension is
\* classified plain launch.
C12_ScriptIsPlainLaunch ==
    (Classified /\ ~ListMatches(launch) /\ HasScriptExtension) =>
        launchRequest = "null"

\* ---- C13 ----
\* C13: a node that neither the launch list nor a shell-script extension
\* excludes is classified debug launch exactly when attachDebugger is absent
\* (undefined or null) or matches the node; with attachDebugger present and
\* not matching, the empty list included, it is classified plain launch.
C13_DebugIffAttachAbsentOrMatches ==
    (Classified /\ ~ListMatches(launch) /\ ~HasScriptExtension) =>
        (launchRequest = "request" <=> (AttachAbsent \/ ListMatches(attachDebugger)))

\* Plain launch under an empty attachDebugger list
C13_Witness ==
    /\ launchRequest = "null"
    /\ ~ListMatches(launch)
    /\ ~HasScriptExtension
    /\ attachDebugger = ArrayOf(<<>>)

\* ---- C14 ----
\* The classification of the nodes has run
NodesClassified == decisions # <<>>

AddedNodes == {i \in 1..Len(decisions) : decisions[i].addProcess > 0}

ExecutedNodes == {i \in 1..Len(decisions) : decisions[i].executeLaunchRequest > 0}

C14_OneDecision ==
    /\ (resolver = "ros1" /\ launchPc \in {"startingSessions", "returned"}) =>
          NodesClassified
    /\ NodesClassified =>
        /\ Len(decisions) = Len(nodes)
        /\ \A i \in 1..Len(nodes) :
              decisions[i].addProcess + decisions[i].executeLaunchRequest = 1
        /\ sniffing \cup starting \subseteq ExecutedNodes

C14_Step ==
    /\ NodesClassified => decisions' = decisions
    /\ (~NodesClassified /\ NodesClassified') =>
          /\ IF launchPc' = "returned"
             THEN Len(processes') - Len(processes) \in {0, Cardinality(AddedNodes')}
             ELSE Len(processesToLaunch')
                    = Len(processesToLaunch) + Cardinality(AddedNodes')
          /\ sniffing' \cup starting' \subseteq ExecutedNodes'
    /\ NodesClassified => Len(processesToLaunch') <= Len(processesToLaunch)

\* C14: once the nodes of an invocation are classified, every node of the
\* list has exactly one decision: one addProcess call (as many entries join
\* the queue as nodes were added) or one executeLaunchRequest call, never
\* both, never neither; the decisions never change afterwards and the queue
\* gets no further entry.
C14_EveryNodeDecidedOnce == []C14_OneDecision /\ [][C14_Step]_vars

\* A list with a plain and a debugged node was classified and the invocation
\* went on to read the executable of the debugged one
C14_Witness ==
    /\ NodesClassified
    /\ AddedNodes # {} /\ ExecutedNodes # {}
    /\ startRequests > 0
    /\ launchPc = "returned"

\* ---- C15 ----
\* The invocation has ended, by return or by a thrown error
Ended == launchPc \in {"returned", "failed"}

\* The queued plain processes were each spawned once, in the queue's order
AllSpawnedOnce ==
    /\ processes = [i \in 1..Cardinality(AddedNodes) |-> i]
    /\ \A p \in Procs : child[p] = "running" <=> p <= Cardinality(AddedNodes)

NoneSpawned == processes = <<>> /\ \A p \in Procs : child[p] = "unspawned"

\* C15 (the claim as stated; violated by the code): plain nodes are queued
\* only by the classification and spawned only after it; in an invocation
\* that has classified its nodes and ended, the queue is empty, and the
\* queued plain processes were each spawned once if a node went to debug mode
\* (debug_count is not 0) and none was spawned otherwise.
C15_StartOrClearAfterClassification ==
    /\ (processesToLaunch # <<>> \/ processes # <<>>) => NodesClassified
    /\ (NodesClassified /\ Ended) =>
          /\ processesToLaunch = <<>>
          /\ IF debug_count # 0 THEN AllSpawnedOnce ELSE NoneSpawned

\* ---- C18 ----
\* The step closes the terminal of process p
TerminalCloses(p) == pty[p] = "open" /\ pty'[p] = "closed"

OnlySigint(p) == [q \in Procs |-> IF q = p THEN <<"SIGINT">> ELSE <<>>]

C18_Step ==
    \A p \in Procs :
        TerminalCloses(p) =>
            /\ UNCHANGED <<sessions, stopping, stopRequests, pendingStop, stopCall,
                           coreRunning, child, terminals>>
            /\ \A k \in KillKeys \ {TermKey(p)} : killCall'[k] = killCall[k]
            /\ IF terminateOnTerminalClosed # "false"
               THEN /\ processes' = Filter(processes, Procs \ {p})
                    /\ killCall'[TermKey(p)].pc = "grace1"
                    /\ killCall'[TermKey(p)].sigs = OnlySigint(p)
               ELSE UNCHANGED <<processes, killCall>>

C18_OnlyThatProcess ==
    \A p \in Procs : \A q \in Procs \ {p} : killCall[TermKey(p)].sigs[q] = <<>>

\* C18: closing the terminal of process p leaves the session set, the stop
\* requests to the host, the stop calls, the core service and the other kill
\* calls as they are; unless terminateOnTerminalClosed is false it removes p,
\* and only p, from the process set and begins one killProcess call that
\* signals p and never any other process; with terminateOnTerminalClosed
\* false it changes neither the process set nor any kill call.
C18_TerminalCloseKillsOnlyItsProcess == [][C18_Step]_vars /\ []C18_OnlyThatProcess

\* The terminal of one of two processes was closed while the debug session
\* runs: that process is being killed, the other is in the process set,
\* running and unsignalled
C18_Witness ==
    \E p \in Procs : \E q \in Procs \ {p} :
        /\ pty[p] = "closed" /\ killCall[TermKey(p)].sigs[p] # <<>>
        /\ processes = <<q>> /\ child[q] = "running" /\ pty[q] = "open"
        /\ \A k \in KillKeys : killCall[k].sigs[q] = <<>>
        /\ sessions # <<>>

\* ---- C16 ----
\* The step delivers a stop notification that begins a stopAll teardown
FirstStop(s) == StopNotified(s) /\ stopAll = "true" /\ ~stopping

C16_Step ==
    /\ \A s \in Sessions :
        FirstStop(s) =>
            /\ \A t \in Sessions :
                stopRequests'[t] =
                    stopRequests[t] + (IF t \in SeqToSet(sessions) \ {s} THEN 1 ELSE 0)
            /\ pendingStop' = pendingStop \cup {<<s, t>> : t \in SeqToSet(sessions) \ {s}}
    /\ (\A s \in Sessions : ~FirstStop(s)) =>
            /\ stopRequests' = stopRequests
            /\ pendingStop' \subseteq pendingStop

\* C16: under stopAll = true the stop notification that finds the guard unset
\* asks the host, once each, to stop exactly the sessions of the session set
\* other than the stopped one, and does not ask it to stop the stopped one;
\* no other step of the teardown, and no other step at all, asks the host to
\* stop a session.
C16_StopsEveryOtherSessionOnce == [][C16_Step]_vars

\* A teardown asked the host to stop the other tracked session and is waiting
\* for it
C16_Witness ==
    \E s \in Sessions : \E t \in Sessions \ {s} :
        /\ stopCall[s] = [pc |-> "stopSessions", branch |-> "all"]
        /\ <<s, t>> \in pendingStop
        /\ stopRequests[t] = 1
        /\ stopRequests[s] = 0

\* ---- C17 ----
\* C17 (the claim as stated; violated by the code): a stop notification for a
\* session that is not in the session set returns at once and changes neither
\* the session set nor the process set, sends no signal, asks the host to stop
\* no session, sets no guard and begins no teardown (which would query and
\* possibly stop the core service).
C17_UntrackedStopIsIgnored ==
    [][\A s \in Sessions :
          (StopNotified(s) /\ s \notin SeqToSet(sessions)) =>
              /\ UNCHANGED <<sessions, processes, stopping, killCall,
                             stopRequests, pendingStop, coreRunning>>
              /\ stopCall'[s].pc = "done"]_vars

\* ---- C19 ----
\* The step completes the teardown of stop call s
TeardownCompletes(s) == stopCall[s].pc = "coreStatus" /\ stopCall'[s].pc = "done"

\* C19 (the claim as stated; violated by the code): the step that completes a
\* teardown leaves the session set, the process set and the terminal set
\* empty and the stopping guard false.
C19_TeardownClearsGroupState ==
    [][\A s \in Sessions :
          TeardownCompletes(s) =>
              /\ sessions' = <<>>
              /\ processes' = <<>>
              /\ terminals' = <<>>
              /\ stopping' = FALSE]_vars

\* ---------------------------------------------------------------------
\* C20: a launch request whose target is not an absolute path, or whose
\* extension is not one the chosen resolver accepts (.launch or .test for
\* the ROS 1 resolver, .py or .xml for the debug_launch resolver), fails with
\* an error before anything else happens: the core status is not queried and
\* no core is started, no evaluator is called, no process is queued or
\* spawned, no debug session is requested, and the group configuration is
\* left as it was.
AcceptedExtensions ==
    IF resolver = "ros1" THEN {".launch", ".test"} ELSE {".py", ".xml"}

InvalidTarget == ~target.absolute \/ target.ext \notin AcceptedExtensions

NothingHappened ==
    /\ startCoreCalls = 0
    /\ evaluatorCalls = 0
    /\ startRequests = 0
    /\ processesToLaunch = <<>>
    /\ processes = <<>>
    /\ sniffing = {}
    /\ starting = {}
    /\ decisions = <<>>

C20_InvalidTargetOnlyFails ==
    InvalidTarget =>
        /\ launchPc \in {"idle", "failed"}
        /\ launchPc = "failed" => launchError \in {"target", "extension"}
        /\ NothingHappened

C20_Step ==
    (InvalidTarget /\ launchPc = "idle" /\ launchPc' # "idle") =>
        /\ launchPc' = "failed"
        /\ launchError' \in {"target", "extension"}
        /\ UNCHANGED <<groupVars, startCoreCalls, evaluatorCalls,
                       startRequests, processesToLaunch, sniffing, starting,
                       decisions>>

C20_InvalidTargetFailsFirst ==
    []C20_InvalidTargetOnlyFails /\ [][C20_Step]_vars

C20_Witness ==
    /\ resolver = "ros1"
    /\ ~target.absolute
    /\ target.ext = ".launch"
    /\ launchPc = "failed"
    /\ launchError = "target"

\* ---------------------------------------------------------------------
\* C21: if the parameter dump or the node list call of the evaluator produces
\* diagnostic output on stderr or an empty stdout, the launch invocation fails
\* with an error and proceeds no further: the group is not configured, no
\* node is classified, no plain process is queued or spawned and no debug
\* session is requested.
\* The step is the answer of roslaunch --dump-params or roslaunch --nodes
EvaluatorAnswers ==
    launchPc \in {"dumpParams", "listNodes"} /\ launchPc' # launchPc

EvaluatorGaveNothing == execResult \in {"stderr", "empty"}

C21_FailedAndStopped ==
    EvaluatorGaveNothing =>
        /\ launchPc = "failed"
        /\ launchError = "evaluator"
        /\ nodes = <<>>
        /\ decisions = <<>>
        /\ processesToLaunch = <<>>
        /\ processes = <<>>
        /\ \A p \in Procs : child[p] = "unspawned"
        /\ sniffing = {}
        /\ starting = {}
        /\ startRequests = 0

C21_Step ==
    /\ (EvaluatorAnswers /\ EvaluatorGaveNothing') =>
            UNCHANGED <<groupVars, evaluatorCalls>>
    /\ EvaluatorGaveNothing =>
            UNCHANGED <<sessions, processes, terminals, stopping, stopAll,
                        stopCoreAfterDebug, stopLaunchedNodes,
                        attachTerminalsToProcesses, terminateOnTerminalClosed,
                        child, launchVars>>

C21_EvaluatorErrorFailsLaunch ==
    []C21_FailedAndStopped /\ [][C21_Step]_vars

C21_Witness ==
    /\ execResult = "empty"
    /\ evaluatorCalls = 2
    /\ launchPc = "failed"

\* ---------------------------------------------------------------------
\* C22: when the group stop runs with stopLaunchedNodes false, the teardown
\* sends no signal to any plain process; when stopLaunchedNodes is true or
\* unset, every process that is in the process set when stopAllProcesses
\* begins is put through killProcess (it is sent the interrupt signal).
\* The step in which the sessionStopped call of session s enters
\* stopAllProcesses
StopAllProcessesBegins(s) ==
    /\ stopCall[s].pc \in {"none", "stopSessions"}
    /\ stopCall'[s].pc \in {"killProcs", "coreStatus"}

C22_Step ==
    \A s \in Sessions :
        StopAllProcessesBegins(s) =>
            IF stopLaunchedNodes = "false"
            THEN killCall' = killCall
            ELSE \A p \in Procs :
                    killCall'[s].sigs[p] =
                        (IF p \in SeqToSet(processes) THEN <<"SIGINT">> ELSE <<>>)

C22_NoSignalFromTeardown ==
    stopLaunchedNodes = "false" =>
        \A s \in Sessions, p \in Procs : killCall[s].sigs[p] = <<>>

C22_StopLaunchedNodesDecidesKill ==
    []C22_NoSignalFromTeardown /\ [][C22_Step]_vars

C22_Witness ==
    /\ stopLaunchedNodes = "false"
    /\ processes # <<>>
    /\ \E s \in Sessions : stopCall[s].pc = "coreStatus"
    /\ \A k \in KillKeys : killCall[k] = NoKill

\* ---------------------------------------------------------------------
\* C23: during a group teardown the core service is asked to stop if and only
\* if stopCoreAfterDebug is true and the core status query of that teardown
\* reports running; with stopCoreAfterDebug false or unset the group never
\* stops the core, under either stopAll policy.
\* The step in which the core status query of the teardown of session s is
\* answered (with coreRunning, the status at that moment)
CoreStatusAnswered(s) ==
    stopCall[s].pc = "coreStatus" /\ stopCall'[s].pc = "done"

C23_Step ==
    /\ stopCoreCalls' # stopCoreCalls =>
            /\ stopCoreCalls' = stopCoreCalls + 1
            /\ stopCoreAfterDebug = "true"
            /\ coreRunning
            /\ \E s \in Sessions : CoreStatusAnswered(s)
    /\ \A s \in Sessions :
            (CoreStatusAnswered(s) /\ stopCoreAfterDebug = "true" /\ coreRunning) =>
                stopCoreCalls' = stopCoreCalls + 1
    /\ (coreRunning /\ ~coreRunning') => stopCoreCalls' = stopCoreCalls + 1

C23_NeverStoppedUnlessTrue ==
    stopCoreAfterDebug # "true" => stopCoreCalls = 0

C23_CoreStoppedIffAskedAndRunning ==
    []C23_NeverStoppedUnlessTrue /\ [][C23_Step]_vars

C23_Witness ==
    /\ stopCoreCalls = 1
    /\ ~coreRunning
    /\ stopAll = "true"
    /\ \E s \in Sessions : stopCall[s] = [pc |-> "done", branch |-> "all"]

\* ---------------------------------------------------------------------
\* C24: if the host refuses to start the debug session of a debug-classified
\* node, on every platform the failure is fatal and surfaced: the launch
\* invocation ends with an error and does not complete as a successful
\* launch.
C24_RefusedStartFailsLaunch ==
    refused # {} => launchPc = "failed"

\* ---------------------------------------------------------------------
\* C25: every node classified as debug launch leads to exactly one
\* session-start request to the host, unless the invocation fails with a
\* reported error; a node is never counted as debugged while no start request
\* and no error is ever produced for it. Once the invocation has returned
\* without an error and no executable is still being read, the host has been
\* asked to start one session for each node counted in debug_count.
NothingBeingRead == sniffing = {}

C25_OneStartRequestPerDebugNode ==
    (resolver = "ros1" /\ launchPc = "returned" /\ NothingBeingRead) =>
        startRequests = debug_count

\* ---------------------------------------------------------------------
\* C26: under stopAll = true the stop of the other sessions and the teardown
\* of the plain processes run concurrently: the turn of the event loop that
\* delivers the first stop notification sends the interrupt signal to every
\* process of the process set, without waiting for the host's stop requests
\* for the other sessions to complete.
C26_TeardownDoesNotWaitForHost ==
    [][\A s \in Sessions :
          (StopNotified(s) /\ stopAll = "true" /\ ~stopping
             /\ stopLaunchedNodes # "false") =>
                \A p \in SeqToSet(processes) :
                    killCall'[s].sigs[p] = <<"SIGINT">>]_vars

\* ---------------------------------------------------------------------
\* C27: the pre-flight gate raises the timeout error only if no status query
\* it made reported the core ready: whenever a status query, the last one
\* included, reports ready, the launch proceeds to the evaluator.
C27_TimeoutOnlyIfNeverReady ==
    launchError = "timeout" => ~gateSawReady

\* ---------------------------------------------------------------------
\* C28: across every interleaving of session-stop notifications and
\* terminal-close events, each plain process is put through killProcess at
\* most once: no process is being escalated by two killProcess calls begun by
\* two overlapping termination triggers.
KillersOf(p) == {k \in KillKeys : killCall[k].sigs[p] # <<>>}

C28_NoDoubleKill ==
    \A p \in Procs : Cardinality(KillersOf(p)) <= 1

\* ---------------------------------------------------------------------
\* C29: the stopping guard is true only while a stopAll teardown is in
\* flight, and is reset to false after every teardown, including a teardown
\* in which a stop request to the host fails with an error: the group is
\* never left with the guard set and no teardown running.
C29_GuardOnlyDuringTeardown ==
    stopping = TRUE => StopAllInFlight # {}

\* ---------------------------------------------------------------------
\* C30: no member is silently dropped from the group: when a teardown
\* completes, every process of the process set was signalled by that teardown
\* or is still in the process set (stopLaunchedNodes not being false), and
\* every other session of the session set was asked to stop or is still in
\* the session set.
C30_NoMemberDropped ==
    [][\A s \in Sessions :
          CoreStatusAnswered(s) =>
             /\ stopLaunchedNodes # "false" =>
                   \A p \in SeqToSet(processes) :
                       \/ killCall[s].sigs[p] # <<>>
                       \/ p \in SeqToSet(processes')
             /\ \A t \in SeqToSet(sessions) \ {s} :
                   \/ stopRequests[t] > 0
                   \/ t \in SeqToSet(sessions')]_vars

\* ---------------------------------------------------------------------
\* C32: the plain-process queue is empty at the start of every launch
\* invocation, also after an invocation that ended in an error during
\* classification: a plain process queued by one invocation is never spawned
\* by a later invocation.
C32_QueueEmptyAtStart ==
    launchPc = "idle" => processesToLaunch = <<>>

\* ---------------------------------------------------------------------
\* C31: with stopLaunchedNodes not false, once every debug session of a
\* launch invocation has stopped, every plain process spawned by that
\* invocation is eventually sent the interrupt signal, also when a session's
\* stop notification is delivered before the queued plain processes are
\* started. Only a teardown signals a process, and it empties the process set
\* when it completes: so no process leaves the process set without having
\* been signalled, and once the invocation has returned, every request is
\* answered, every started session has stopped and no sessionStopped call is
\* in flight, no process is left in the process set.
InvocationSettled ==
    /\ launchPc = "returned"
    /\ sniffing = {}
    /\ starting = {}
    /\ StartedSessions # {}
    /\ \A s \in Sessions : hostSession[s] # "running"
    /\ \A s \in Sessions : ~InFlight(s)
    /\ pendingStop = {}

C31_ProcessesSignalledOnceSessionsStopped ==
    [][stopLaunchedNodes # "false" =>
          /\ InvocationSettled' => processes' = <<>>
          /\ \A p \in SeqToSet(processes) \ SeqToSet(processes') :
                KillersOf(p) # {}]_vars
====
